---- MODULE Spec2Model ----
(***************************************************************************)
(* A model of Vigilare: the crawler pipeline of crawler/bot.py             *)
(* (dispatcher, fetch workers, parse workers, DB writer, recover), the     *)
(* main thread of run_crawler.py with its shutdown, the indexer loop of    *)
(* indexer.py, over the Crawl, Storage and Search stores, and the /search  *)
(* route of app/routes.py with its rate limiter.                           *)
(*                                                                         *)
(* Wall-clock time is modelled by what the code compares it with: the age  *)
(* of a domain's last_access is one of three classes ("recent": younger    *)
(* than CRAWL_DELAY, "cooling": younger than the 300 s penalty window,     *)
(* "old"); lease_expired holds the rows whose reserved_at is older than 15 *)
(* minutes, tracked while the row is active (status 1), the only time the  *)
(* dispatcher's query reads reserved_at; a reserve statement re-stamps it. *)
(* The actions Tick, LeaseExpire, RobotsExpire and WaitElapsed let time     *)
(* pass.                                                                   *)
(***************************************************************************)
EXTENDS Integers, Sequences, FiniteSets, TLC

(* ------------------------------ bounds --------------------------------- *)
\* dispatched_cache = deque(maxlen=20000), scaled: a ring the frontier outgrows
RingMax == 1
\* config.BATCH_SIZE (5000), scaled
BatchSize == 1
\* the same three for a frontier below every limit: the ring and one batch
\* hold it entirely and no host reaches the page cap
WideRing == 2
WideBatch == 2
WideCap == 2
\* queue.Queue(maxsize=5000) of each of the three queues, scaled
QueueMax == 2
\* config.MAX_PAGES_PER_DOMAIN (10000), scaled
MaxPagesPerDomain == 1
\* how many network failures (robots or download) the environment injects
MaxFaults == 1
\* indexer.BATCH_SIZE (2500), scaled
IndexBatchSize == 1
\* indexer.MIN_BATCH_SIZE (1000), scaled
MinBatchSize == 2
\* how many times the indexer process is killed
MaxCrashes == 2
\* routes.RATE_LIMIT_MAX (30), scaled
RateLimitMax == 2
\* routes.RATE_LIMIT_WINDOW (60 s), scaled to ticks of the clock
RateLimitWindow == 2
\* the size above which check_rate_limit clears RATE_LIMIT (10000), scaled:
\* as in the source, more than the clients of the modelled load
RateTableMax == 2
\* how far the clock of the web application runs
MaxClock == 4
\* requests of one client that the flood lets pass
MaxAccepted == 3
\* how many rows the index returns for a query (CANDIDATE_POOL_SIZE 500, scaled)
MaxRows == 2
\* how many terms a query has (MAX_QUERY_TERMS 7, scaled)
MaxTerms == 2
\* the longest title and text of a Storage row, in characters
MaxTitleLen == 3
MaxTextLen == 3
\* the length a title taken from the text is cut to (80 in run_indexer,
\* scaled to the modelled strings)
TitleMax == 2
\* the loose query is tried below this many rows (5 in routes.search, scaled
\* to the modelled row lists)
FallbackBelow == 2

(* ------------------------- program constants --------------------------- *)
FetchRetryLimit == 3
PenaltyRetryLimit == 5
PenaltyFailures == 10
RetryPriority == 50
DefaultDomainRank == 10000000
\* frontier.priority of a freshly inserted row (schema default)
DefaultPriority == 10
\* routes.PER_PAGE
PER_PAGE == 20
\* penalty = count * 15.0
DiversityPenalty == 15
\* run_pagerank_job: MAX_RETRIES
PageRankMaxRetries == 3
\* run_indexer: for line in lines[:3]
LinesTried == 3
\* intent = "navigational" if len(base_terms) <= 2
NavTermsMax == 2
\* intent_boost: return 180.0
NavBoost == 180

(* ------------------------------ universe ------------------------------- *)
Urls == {"a1", "a2", "b1"}
Domains == {"a", "b"}
Fetchers == {"f1", "f2"}
Ips == {"p", "q"}
None == "none"

\* urlparse(url).netloc
Netloc(u) == IF u \in {"a1", "a2"} THEN "a" ELSE "b"

VARIABLES
    \* --- Crawl database (committed state)
    frontier,       \* url -> [status, retry_count, priority, reserved_at]
    visited,        \* url -> [content_hash, language, page_rank, domain_rank]
    link_graph,     \* set of <<source_url, target_url>>
    lease_expired,  \* active rows whose reserved_at is older than 15 minutes
    \* --- Storage database
    html_storage,   \* sequence of [rowid, url, parsed_text], in rowid order
    next_rowid,     \* the rowid the next Storage insert gets
    \* --- Search database and the indexer
    search_index,   \* sequence of urls, one per inserted document
    state_file,     \* indexer_state.txt: [exists, content], content a string
    idx,            \* the indexer process: [pc, last_id, waited, batch]
    search_log,     \* history: rowids ever committed to search_index
    started_ids,    \* history: values get_last_indexed_id returned at the starts so far
    crashes,        \* history: number of indexer crashes so far
    rank,           \* run_pagerank_job: [pc, attempt, last, edges]
    \* --- crawler process memory
    FETCH_QUEUE, PARSE_QUEUE, WRITE_QUEUE,
    dispatched_cache,   \* the dispatcher's ring
    disp_pending,       \* rows of the current dispatch not yet put on FETCH_QUEUE
    fetcher,        \* fetcher -> [pc, url, retry_count, result]
    locks,          \* DOMAIN_MGR.locks: domain -> holder or None
    last_access,    \* DOMAIN_MGR.last_access as an age class
    failures,       \* DOMAIN_MGR.failures
    page_counts,    \* DOMAIN_MGR.page_counts
    ROBOTS_CACHE,   \* domain -> None | "allow" | "deny" (an entry within its TTL)
    BLOOM,          \* the in-memory Bloom filter, as the set of urls added
    bloom_file,     \* the Bloom snapshot on disk
    seen_hashes,    \* the writer's set of "h:"-prefixed hashes
    \* --- the environment and history
    web,            \* the run's surroundings: [robots: domain -> "allow"|"deny",
                    \* content: url -> page, links: url -> set of urls] and the
                    \* scale of the deployment: [maxlen, batch_size, max_pages]
    start_recent,   \* domain -> a download of it started less than CRAWL_DELAY ago
    ever_terminal,  \* urls whose committed status has been 2 or 3
    faults,         \* number of injected network failures
    \* --- run_crawler.main and the threads' working memory
    main,           \* the main thread: "monitor", "discard", "drain", "checkpoint", "exited"
    parsing,        \* the items parse workers took from PARSE_QUEUE and still hold
    batch_hold,     \* <<the batches db_writer drained from WRITE_QUEUE>> until written
    conn_storage,   \* db_writer's Storage connection: "idle" or "in_txn"
    \* --- the web application (app/routes.py)
    RATE_LIMIT,     \* the dict ip -> [start, count]
    now,            \* time.time(), in ticks
    accepted,       \* history: ip -> times of the requests check_rate_limit let pass
    rejected,       \* history: ip -> <<the start of the window of its last rejection>>
    resp,           \* the response to the last /search request, and what it computed
    request,        \* <<the /search request about to arrive>>, <<>> once it is served
    \* --- the indexer's loop body on one row
    titling         \* [row: <<the Storage row at hand>>, out: <<the title inserted for it>>]

crawl_db == <<frontier, visited, link_graph>>
storage_db == <<html_storage, next_rowid>>
indexer_vars == <<search_index, state_file, idx, search_log, started_ids, crashes, rank>>
queues == <<FETCH_QUEUE, PARSE_QUEUE, WRITE_QUEUE>>
dispatcher_vars == <<dispatched_cache, disp_pending>>
domain_mgr == <<locks, last_access, failures, page_counts>>
writer_mem == <<BLOOM, bloom_file, seen_hashes>>
history == <<start_recent, ever_terminal, lease_expired, faults>>
main_vars == <<main, parsing, batch_hold>>
app_vars == <<RATE_LIMIT, now, accepted, rejected, resp, request>>
unit_vars == <<titling>>
rest == <<main_vars, conn_storage, app_vars, unit_vars>>
vars == <<crawl_db, storage_db, indexer_vars, queues, dispatcher_vars, fetcher,
          domain_mgr, ROBOTS_CACHE, writer_mem, web, history, rest>>

(* ------------------------------ helpers -------------------------------- *)
Range(s) == {s[i] : i \in 1..Len(s)}

Min(a, b) == IF a < b THEN a ELSE b

\* all orderings of a finite set, as sequences (random.shuffle)
Perms(S) == {p \in [1..Cardinality(S) -> S] : \A i, j \in 1..Cardinality(S) : p[i] = p[j] => i = j}

\* a row INSERT INTO frontier (url, domain) creates
NewFrontierRow ==
    [status |-> 0, retry_count |-> 0, priority |-> DefaultPriority, reserved_at |-> "null"]

IdleFetcher == [pc |-> "idle", url |-> None, retry_count |-> 0, result |-> None]

\* a WRITE_QUEUE message; only save_page carries hash and content
Msg(t, u, v, us, h) ==
    [type |-> t, url |-> u, val |-> v, urls |-> us, hash |-> h, content |-> None]

(* ----------------------------- dispatcher ------------------------------ *)
\* FETCH_QUEUE.qsize() < 2500: below half of the queue's capacity
FetchLow == (QueueMax + 1) \div 2

\* a query with no WHERE clause
Selectable_any(fr) == DOMAIN fr

\* WHERE status = 0 OR (status = 1 AND reserved_at < datetime('now', '-15 minutes'))
Selectable(fr) ==
    {u \in DOMAIN fr : fr[u].status = 0 \/ (fr[u].status = 1 /\ u \in lease_expired)}

\* ORDER BY priority ASC LIMIT BATCH_SIZE: the row sets the query can return
SelectRows(fr) ==
    {R \in SUBSET Selectable(fr) :
        /\ Cardinality(R) = Min(web.batch_size, Cardinality(Selectable(fr)))
        /\ \A r \in R, e \in Selectable(fr) \ R : fr[r].priority <= fr[e].priority}

\* valid_rows = [r for r in rows if r[0] not in dispatched_cache]
ValidRows(rows, ring) == rows \ Range(ring)

\* deque(maxlen).extend: the oldest entries fall off the left end
RingExtend(ring, urls) ==
    LET all == ring \o urls
    IN  IF Len(all) <= web.maxlen THEN all
        ELSE SubSeq(all, Len(all) - web.maxlen + 1, Len(all))

\* The source's ring (20000) exceeds what the three queues and the worker
\* threads can hold (3 * 5000 + 60) behind an unconsumed message, so by the
\* time a url falls off the ring the writer has consumed the reserve message
\* that names it.  The scaled bounds do not keep that ratio; this keeps the fact.
ReserveConsumed(ring, urls) ==
    LET evicted == Range(ring) \ Range(RingExtend(ring, urls))
    IN  \A i \in 1..Len(WRITE_QUEUE) :
            WRITE_QUEUE[i].type = "reserve" => WRITE_QUEUE[i].urls \cap evicted = {}

\* one pass of dispatcher_loop that finds valid rows: reserve, ring, then the puts
DispatchTick ==
    /\ disp_pending = <<>>
    /\ Len(FETCH_QUEUE) < FetchLow
    /\ Len(WRITE_QUEUE) < QueueMax
    /\ \E rows \in SelectRows(frontier) :
         /\ ValidRows(rows, dispatched_cache) # {}
         /\ \E order \in Perms(ValidRows(rows, dispatched_cache)) :
              /\ ReserveConsumed(dispatched_cache, order)
              /\ WRITE_QUEUE' = Append(WRITE_QUEUE,
                                       Msg("reserve", None, 0, Range(order), None))
              /\ dispatched_cache' = RingExtend(dispatched_cache, order)
              /\ disp_pending' = [i \in 1..Len(order) |->
                                     <<order[i], frontier[order[i]].retry_count>>]
    /\ UNCHANGED <<crawl_db, storage_db, indexer_vars, FETCH_QUEUE, PARSE_QUEUE, fetcher,
                   domain_mgr, ROBOTS_CACHE, writer_mem, web, rest, history>>

\* for r in valid_rows: FETCH_QUEUE.put(r)   (blocks while the queue is full)
DispatchPut ==
    /\ disp_pending # <<>>
    /\ Len(FETCH_QUEUE) < QueueMax
    /\ FETCH_QUEUE' = Append(FETCH_QUEUE, Head(disp_pending))
    /\ disp_pending' = Tail(disp_pending)
    /\ UNCHANGED <<crawl_db, storage_db, indexer_vars, PARSE_QUEUE, WRITE_QUEUE,
                   dispatched_cache, fetcher, domain_mgr, ROBOTS_CACHE, writer_mem,
                   web, rest, history>>

(* ---------------------------- fetch workers ---------------------------- *)
can_crawl(d) ==
    IF page_counts[d] >= web.max_pages THEN "CAP_HIT"
    ELSE IF failures[d] > PenaltyFailures /\ last_access[d] # "old" THEN "PENALTY_BOX"
    ELSE IF last_access[d] = "recent" THEN "POLITENESS"
    ELSE "OK"

\* the message a fetcher emits when can_crawl does not say OK
GovernanceMsg(status, url, retry_count) ==
    IF status = "CAP_HIT" THEN Msg("status_update", url, 2, {}, None)
    ELSE IF status = "PENALTY_BOX"
         THEN IF retry_count >= PenaltyRetryLimit
              THEN Msg("status_update", url, 3, {}, None)
              ELSE Msg("retry", url, retry_count + 1, {}, None)
    ELSE Msg("reschedule", url, 5, {}, None)

\* FETCH_QUEUE.get, can_crawl and the branch status != 'OK'
FetchGet(f) ==
    /\ fetcher[f].pc = "idle"
    /\ FETCH_QUEUE # <<>>
    /\ LET url == Head(FETCH_QUEUE)[1]
           rc == Head(FETCH_QUEUE)[2]
           status == can_crawl(Netloc(url))
       IN  /\ FETCH_QUEUE' = Tail(FETCH_QUEUE)
           /\ IF status = "OK"
              THEN /\ fetcher' = [fetcher EXCEPT ![f] =
                                    [pc |-> "robots", url |-> url, retry_count |-> rc,
                                     result |-> None]]
                   /\ UNCHANGED WRITE_QUEUE
              ELSE /\ Len(WRITE_QUEUE) < QueueMax
                   /\ WRITE_QUEUE' = Append(WRITE_QUEUE, GovernanceMsg(status, url, rc))
                   /\ UNCHANGED fetcher
    /\ UNCHANGED <<crawl_db, storage_db, indexer_vars, PARSE_QUEUE, dispatcher_vars,
                   domain_mgr, ROBOTS_CACHE, writer_mem, web, rest, history>>

\* the end of check_robots_allow and the fetcher's branch on it
RobotsDecide(f, policy) ==
    IF policy = "allow"
    THEN /\ fetcher' = [fetcher EXCEPT ![f].pc = "lock"]
         /\ UNCHANGED WRITE_QUEUE
    ELSE /\ Len(WRITE_QUEUE) < QueueMax
         /\ WRITE_QUEUE' = Append(WRITE_QUEUE,
                                  Msg("status_update", fetcher[f].url, 3, {}, None))
         /\ fetcher' = [fetcher EXCEPT ![f] = IdleFetcher]

\* check_robots_allow: the cache lookup under ROBOTS_LOCK
RobotsLookup(f) ==
    /\ fetcher[f].pc = "robots"
    /\ LET d == Netloc(fetcher[f].url)
       IN  IF ROBOTS_CACHE[d] # None
           THEN RobotsDecide(f, ROBOTS_CACHE[d])
           ELSE /\ fetcher' = [fetcher EXCEPT ![f].pc = "robots_fetch"]
                /\ UNCHANGED WRITE_QUEUE
    /\ UNCHANGED <<crawl_db, storage_db, indexer_vars, FETCH_QUEUE, PARSE_QUEUE,
                   dispatcher_vars, domain_mgr, ROBOTS_CACHE, writer_mem, web, rest, history>>

\* check_robots_allow: SESSION.get of robots.txt answered, the entry is cached
RobotsFetched(f) ==
    /\ fetcher[f].pc = "robots_fetch"
    /\ LET d == Netloc(fetcher[f].url)
       IN  /\ ROBOTS_CACHE' = [ROBOTS_CACHE EXCEPT ![d] = web.robots[d]]
           /\ RobotsDecide(f, web.robots[d])
    /\ UNCHANGED <<crawl_db, storage_db, indexer_vars, FETCH_QUEUE, PARSE_QUEUE,
                   dispatcher_vars, domain_mgr, writer_mem, web, rest, history>>

\* check_robots_allow returns None (network failure): retry, whatever retry_count is
RobotsNetFail(f) ==
    /\ fetcher[f].pc = "robots_fetch"
    /\ faults < MaxFaults
    /\ Len(WRITE_QUEUE) < QueueMax
    /\ WRITE_QUEUE' = Append(WRITE_QUEUE,
                             Msg("retry", fetcher[f].url, fetcher[f].retry_count + 1, {}, None))
    /\ fetcher' = [fetcher EXCEPT ![f] = IdleFetcher]
    /\ faults' = faults + 1
    /\ UNCHANGED <<crawl_db, storage_db, indexer_vars, FETCH_QUEUE, PARSE_QUEUE,
                   dispatcher_vars, domain_mgr, ROBOTS_CACHE, writer_mem, web, rest,
                   start_recent, ever_terminal, lease_expired>>

\* DomainManager.mark_access
mark_access(d) == [last_access EXCEPT ![d] = "recent"]

\* with DOMAIN_MGR.locks[domain]: mark_access(domain); download_page(url) starts
LockAndStart(f) ==
    /\ fetcher[f].pc = "lock"
    /\ LET d == Netloc(fetcher[f].url)
       IN  /\ locks[d] = None
           /\ locks' = [locks EXCEPT ![d] = f]
           /\ last_access' = mark_access(d)
           /\ start_recent' = [start_recent EXCEPT ![d] = TRUE]
    /\ fetcher' = [fetcher EXCEPT ![f].pc = "download"]
    /\ UNCHANGED <<crawl_db, storage_db, indexer_vars, queues, dispatcher_vars, failures,
                   page_counts, ROBOTS_CACHE, writer_mem, web, rest, ever_terminal,
                   lease_expired, faults>>

\* download_page returns content; the with block ends and releases the lock
DownloadOk(f) ==
    /\ fetcher[f].pc = "download"
    /\ locks' = [locks EXCEPT ![Netloc(fetcher[f].url)] = None]
    /\ fetcher' = [fetcher EXCEPT ![f].pc = "post",
                                  ![f].result = [error |-> None,
                                                 content |-> web.content[fetcher[f].url]]]
    /\ UNCHANGED <<crawl_db, storage_db, indexer_vars, queues, dispatcher_vars, last_access,
                   failures, page_counts, ROBOTS_CACHE, writer_mem, web, rest, history>>

\* the classified errors of download_page, one of each class
DownloadErrors == {"CONNECTION_ERROR", "NOT_HTML"}

\* download_page returns an error; the with block ends and releases the lock
DownloadError(f) ==
    /\ fetcher[f].pc = "download"
    /\ faults < MaxFaults
    /\ faults' = faults + 1
    /\ locks' = [locks EXCEPT ![Netloc(fetcher[f].url)] = None]
    /\ \E e \in DownloadErrors :
         fetcher' = [fetcher EXCEPT ![f].pc = "post",
                                    ![f].result = [error |-> e, content |-> None]]
    /\ UNCHANGED <<crawl_db, storage_db, indexer_vars, queues, dispatcher_vars, last_access,
                   failures, page_counts, ROBOTS_CACHE, writer_mem, web, rest, start_recent,
                   ever_terminal, lease_expired>>

\* DomainManager.mark_failure (the counter only matters up to PenaltyFailures + 1)
mark_failure(d) == IF failures[d] > PenaltyFailures THEN failures
                   ELSE [failures EXCEPT ![d] = @ + 1]

\* DomainManager.mark_success
mark_success(d) == [page_counts EXCEPT ![d] = @ + 1]

\* a fetcher that retries a failed download whatever retry_count is
ErrorMsg_always_retry(url, retry_count) == Msg("retry", url, retry_count + 1, {}, None)

\* if retry_count < 3: retry with retry_count + 1, else: status_update 3
ErrorMsg(url, retry_count) ==
    IF retry_count < FetchRetryLimit
    THEN Msg("retry", url, retry_count + 1, {}, None)
    ELSE Msg("status_update", url, 3, {}, None)

\* if result['error']: ... else: ...   (after the lock was released)
FetchFinish(f) ==
    /\ fetcher[f].pc = "post"
    /\ LET url == fetcher[f].url
           rc == fetcher[f].retry_count
           d == Netloc(fetcher[f].url)
       IN  IF fetcher[f].result.error # None
           THEN /\ Len(WRITE_QUEUE) < QueueMax
                /\ failures' = mark_failure(d)
                /\ last_access' = mark_access(d)
                /\ WRITE_QUEUE' = Append(WRITE_QUEUE, ErrorMsg(url, rc))
                /\ UNCHANGED <<page_counts, PARSE_QUEUE>>
           ELSE /\ Len(PARSE_QUEUE) < QueueMax
                /\ page_counts' = mark_success(d)
                /\ PARSE_QUEUE' = Append(PARSE_QUEUE, <<url, fetcher[f].result.content, rc>>)
                /\ UNCHANGED <<failures, last_access, WRITE_QUEUE>>
    /\ fetcher' = [fetcher EXCEPT ![f] = IdleFetcher]
    /\ UNCHANGED <<crawl_db, storage_db, indexer_vars, FETCH_QUEUE, dispatcher_vars, locks,
                   ROBOTS_CACHE, writer_mem, web, rest, history>>

(* ---------------------------- parse workers ---------------------------- *)
\* config.PARSE_THREADS workers take from PARSE_QUEUE at once: any of the
\* first ParseThreads entries may be the next to finish
ParseThreads == QueueMax

\* compute_simhash of the cleaned text: a function of the text alone
compute_simhash(content) == IF content = "x" THEN "1a" ELSE "2b"

RemoveAt(s, i) == SubSeq(s, 1, i - 1) \o SubSeq(s, i + 1, Len(s))

\* the save_page message of a parsed item: the links are extracted only
\* while FETCH_QUEUE is not full
SavePage(item) ==
    LET url == item[1]
        content == item[2]
        links == IF Len(FETCH_QUEUE) < QueueMax THEN web.links[url] ELSE {}
    IN  [Msg("save_page", url, 200, links, compute_simhash(content))
            EXCEPT !.content = content]

\* parse_worker: one page parsed and its save_page put on WRITE_QUEUE
Parse ==
    /\ Len(WRITE_QUEUE) < QueueMax
    /\ \E i \in 1..Min(ParseThreads, Len(PARSE_QUEUE)) :
         /\ PARSE_QUEUE' = RemoveAt(PARSE_QUEUE, i)
         /\ WRITE_QUEUE' = Append(WRITE_QUEUE, SavePage(PARSE_QUEUE[i]))
    /\ UNCHANGED <<crawl_db, storage_db, indexer_vars, FETCH_QUEUE, dispatcher_vars, fetcher,
                   domain_mgr, ROBOTS_CACHE, writer_mem, web, rest, history>>

\* parse_worker, step by step: PARSE_QUEUE.get() by a free worker
ParseTake ==
    /\ PARSE_QUEUE # <<>>
    /\ Len(parsing) < ParseThreads
    /\ parsing' = Append(parsing, Head(PARSE_QUEUE))
    /\ PARSE_QUEUE' = Tail(PARSE_QUEUE)
    /\ UNCHANGED <<crawl_db, storage_db, indexer_vars, FETCH_QUEUE, WRITE_QUEUE,
                   dispatcher_vars, fetcher, domain_mgr, ROBOTS_CACHE, writer_mem, web,
                   history, main, batch_hold, conn_storage, app_vars, unit_vars>>

\* parse_worker, step by step: a worker ends its parse with WRITE_QUEUE.put
ParsePut ==
    /\ Len(WRITE_QUEUE) < QueueMax
    /\ \E i \in 1..Len(parsing) :
         /\ WRITE_QUEUE' = Append(WRITE_QUEUE, SavePage(parsing[i]))
         /\ parsing' = RemoveAt(parsing, i)
    /\ UNCHANGED <<crawl_db, storage_db, indexer_vars, FETCH_QUEUE, PARSE_QUEUE,
                   dispatcher_vars, fetcher, domain_mgr, ROBOTS_CACHE, writer_mem, web,
                   history, main, batch_hold, conn_storage, app_vars, unit_vars>>

(* ------------------------------ DB writer ------------------------------ *)
EmptyBatches(seen, bloom) ==
    [visited |-> <<>>, storage |-> <<>>, status |-> <<>>, links |-> {}, frontier |-> {},
     reserve |-> {}, retries |-> <<>>, reschedule |-> <<>>, seen |-> seen, bloom |-> bloom]

\* the visited row a save_page writes: language NULL, domain_rank 10000000, page_rank 0.0
VisitedRow(safe_hash) ==
    [content_hash |-> safe_hash, language |-> "NULL", page_rank |-> 0,
     domain_rank |-> DefaultDomainRank]

\* BLOOM.lookup / BLOOM.add over the links of a page: the links not yet in the
\* filter (the filter taken as exact: no false positive, no rotation)
BloomMisses(bloom, links) == links \ bloom

\* a writer that takes every page for new
is_duplicate_never(safe_hash, seen) == FALSE

\* is_duplicate = safe_hash in seen_hashes
is_duplicate(safe_hash, seen) == safe_hash \in seen

\* one message of the drain loop sorted into the per-statement batches
ClassifyMsg(m, b) ==
    IF m.type = "save_page"
    THEN LET safe_hash == "h:" \o m.hash
         IN  [b EXCEPT !.visited = Append(@, <<m.url, safe_hash>>),
                       !.storage = IF is_duplicate(safe_hash, b.seen) THEN @
                                   ELSE Append(@, <<m.url, m.content>>),
                       !.status = Append(@, <<2, m.url>>),
                       !.links = @ \cup {<<m.url, l>> : l \in m.urls \ {m.url}},
                       !.frontier = @ \cup BloomMisses(b.bloom, m.urls),
                       !.bloom = @ \cup m.urls,
                       !.seen = @ \cup {safe_hash}]
    ELSE IF m.type = "status_update" THEN [b EXCEPT !.status = Append(@, <<m.val, m.url>>)]
    ELSE IF m.type = "retry" THEN [b EXCEPT !.retries = Append(@, <<m.val, m.url>>)]
    ELSE IF m.type = "reserve" THEN [b EXCEPT !.reserve = @ \cup m.urls]
    ELSE [b EXCEPT !.reschedule = Append(@, m.url)]

RECURSIVE Classify(_, _)
Classify(msgs, b) ==
    IF msgs = <<>> THEN b ELSE Classify(Tail(msgs), ClassifyMsg(Head(msgs), b))

\* INSERT OR REPLACE INTO visited, row by row
RECURSIVE InsertVisited(_, _)
InsertVisited(vis, batch) ==
    IF batch = <<>> THEN vis
    ELSE LET url == Head(batch)[1]
             row == VisitedRow(Head(batch)[2])
         IN  InsertVisited([u \in DOMAIN vis \cup {url} |-> IF u = url THEN row ELSE vis[u]],
                           Tail(batch))

\* UPDATE frontier SET status=?, next_crawl_time=? WHERE url=?, row by row
RECURSIVE UpdateStatus(_, _)
UpdateStatus(fr, batch) ==
    IF batch = <<>> THEN fr
    ELSE LET url == Head(batch)[2]
         IN  UpdateStatus(IF url \in DOMAIN fr
                          THEN [fr EXCEPT ![url].status = Head(batch)[1]] ELSE fr,
                          Tail(batch))

\* a writer that inserts with INSERT OR REPLACE: a known url gets a fresh row
InsertFrontier_replace(fr, links) ==
    [u \in DOMAIN fr \cup links |-> IF u \in links THEN NewFrontierRow ELSE fr[u]]

\* INSERT OR IGNORE INTO frontier (url, domain)
InsertFrontier(fr, links) ==
    [u \in DOMAIN fr \cup links |-> IF u \in DOMAIN fr THEN fr[u] ELSE NewFrontierRow]

\* a writer that drops the reserve statement
UpdateReserve_skip(fr, urls) == fr

\* UPDATE frontier SET status=1, reserved_at=CURRENT_TIMESTAMP WHERE url=?
UpdateReserve(fr, urls) ==
    [u \in DOMAIN fr |-> IF u \in urls
                         THEN [fr[u] EXCEPT !.status = 1, !.reserved_at = "set"]
                         ELSE fr[u]]

\* UPDATE frontier SET status=0, priority=50, retry_count=? WHERE url=?, row by row
RECURSIVE UpdateRetries(_, _)
UpdateRetries(fr, batch) ==
    IF batch = <<>> THEN fr
    ELSE LET url == Head(batch)[2]
         IN  UpdateRetries(IF url \in DOMAIN fr
                           THEN [fr EXCEPT ![url].status = 0,
                                           ![url].priority = RetryPriority,
                                           ![url].retry_count = Head(batch)[1]]
                           ELSE fr,
                           Tail(batch))

\* UPDATE frontier SET status=0, next_crawl_time=? WHERE url=?
UpdateReschedule(fr, batch) ==
    [u \in DOMAIN fr |-> IF u \in Range(batch) THEN [fr[u] EXCEPT !.status = 0] ELSE fr[u]]

\* the frontier after the Crawl transaction: the statements in the order of the source
CrawlFrontier(fr, b) ==
    UpdateReschedule(
        UpdateRetries(
            UpdateReserve(
                InsertFrontier(UpdateStatus(fr, b.status), b.frontier),
                b.reserve),
            b.retries),
        b.reschedule)

\* html_storage is keyed by url: REPLACE removes the row of the same url
ReplaceByUrl(rows, url) == SelectSeq(rows, LAMBDA r : r.url # url)

\* the rowid after this one: rowids grow with every insert and are never reused
AllocRowid(rowid) == rowid + 1

\* INSERT OR REPLACE INTO html_storage, row by row
RECURSIVE InsertStorage(_, _, _)
InsertStorage(rows, rowid, batch) ==
    IF batch = <<>> THEN rows
    ELSE InsertStorage(
            Append(ReplaceByUrl(rows, Head(batch)[1]),
                   [rowid |-> rowid, url |-> Head(batch)[1], parsed_text |-> Head(batch)[2]]),
            AllocRowid(rowid), Tail(batch))

Terminal(fr) == {u \in DOMAIN fr : fr[u].status \in {2, 3}}

\* the expired leases after a Crawl transaction: rows still active that no
\* reserve statement of the batch re-stamped
StillExpired(fr, reserved) ==
    {u \in lease_expired \ reserved : fr[u].status = 1}

\* what the environment does to the Storage transaction of a batch: "ok", the
\* BEGIN IMMEDIATE raises (the database is locked), or a statement after it
\* raises (executemany or commit)
StorageOutcomes == {"ok", "begin_fails", "write_fails"}

\* whether the Storage transaction of a batch commits: no batch_storage, no
\* transaction; BEGIN IMMEDIATE on a connection that is inside a transaction
\* raises
StorageCommits(b, storage) ==
    b.storage # <<>> /\ conn_storage = "idle" /\ storage = "ok"

\* the two transactions of a pass over the batches b.  The Crawl handler
\* rolls back; the Storage handler only logs, so a statement that raises
\* after BEGIN IMMEDIATE leaves the connection inside the transaction.
WriterTxns(b, crawl_ok, storage) ==
    /\ IF crawl_ok
       THEN /\ visited' = InsertVisited(visited, b.visited)
            /\ frontier' = CrawlFrontier(frontier, b)
            /\ link_graph' = link_graph \cup b.links
       ELSE UNCHANGED <<frontier, visited, link_graph>>
    /\ ever_terminal' = ever_terminal \cup Terminal(frontier')
    /\ lease_expired' = IF crawl_ok THEN StillExpired(frontier', b.reserve)
                         ELSE lease_expired
    /\ IF StorageCommits(b, storage)
       THEN /\ html_storage' = InsertStorage(html_storage, next_rowid, b.storage)
            /\ next_rowid' = next_rowid + Len(b.storage)
       ELSE UNCHANGED <<html_storage, next_rowid>>
    /\ conn_storage' = IF b.storage # <<>> /\ conn_storage = "idle" /\ storage = "write_fails"
                       THEN "in_txn" ELSE conn_storage

\* one pass of db_writer's loop over the first k messages of WRITE_QUEUE;
\* crawl_ok: whether the Crawl transaction commits, storage: a StorageOutcome.
\* (The limit of 500 save_page per batch exceeds the scaled queue, and the cap
\* of 1000000 seen hashes the hashes of the modelled web.)
WriterStep(k, crawl_ok, storage) ==
    LET b == Classify(SubSeq(WRITE_QUEUE, 1, k), EmptyBatches(seen_hashes, BLOOM))
    IN  /\ WRITE_QUEUE' = SubSeq(WRITE_QUEUE, k + 1, Len(WRITE_QUEUE))
        /\ seen_hashes' = b.seen
        /\ BLOOM' = b.bloom
        /\ WriterTxns(b, crawl_ok, storage)
        /\ UNCHANGED <<indexer_vars, FETCH_QUEUE, PARSE_QUEUE, dispatcher_vars, fetcher,
                       domain_mgr, ROBOTS_CACHE, bloom_file, web, start_recent, faults,
                       main_vars, app_vars, unit_vars>>

\* a writer that starts a pass only when WRITE_QUEUE has room left
WriterBatch_needs_room ==
    /\ Len(WRITE_QUEUE) < QueueMax
    /\ \E k \in 1..Len(WRITE_QUEUE) : WriterStep(k, TRUE, "ok")

\* a batch both of whose transactions commit
WriterBatch == \E k \in 1..Len(WRITE_QUEUE) : WriterStep(k, TRUE, "ok")

\* a batch with a database error: the Crawl transaction raises, or the
\* Storage transaction of a batch that has pages does
WriterFault ==
    \E k \in 1..Len(WRITE_QUEUE), crawl_ok \in BOOLEAN, storage \in StorageOutcomes :
        /\ ~crawl_ok \/ storage # "ok"
        /\ storage # "ok" =>
              /\ conn_storage = "idle"
              /\ \E i \in 1..k : WRITE_QUEUE[i].type = "save_page"
        /\ WriterStep(k, crawl_ok, storage)

\* db_writer, step by step: the drain loop empties WRITE_QUEUE into the batches
WriterTake ==
    /\ batch_hold = <<>>
    /\ WRITE_QUEUE # <<>>
    /\ LET b == Classify(WRITE_QUEUE, EmptyBatches(seen_hashes, BLOOM))
       IN  /\ batch_hold' = <<b>>
           /\ seen_hashes' = b.seen
           /\ BLOOM' = b.bloom
    /\ WRITE_QUEUE' = <<>>
    /\ UNCHANGED <<crawl_db, storage_db, indexer_vars, FETCH_QUEUE, PARSE_QUEUE,
                   dispatcher_vars, fetcher, domain_mgr, ROBOTS_CACHE, bloom_file, web,
                   history, main, parsing, conn_storage, app_vars, unit_vars>>

\* db_writer, step by step: the two transactions of the drained batches commit
WriterCommit ==
    /\ batch_hold # <<>>
    /\ WriterTxns(batch_hold[1], TRUE, "ok")
    /\ batch_hold' = <<>>
    /\ UNCHANGED <<indexer_vars, queues, dispatcher_vars, fetcher, domain_mgr, ROBOTS_CACHE,
                   writer_mem, web, start_recent, faults, main, parsing, app_vars, unit_vars>>

\* every 300 s: BLOOM.save() (and the WAL checkpoints, which change no row)
BloomSave ==
    /\ bloom_file # BLOOM
    /\ bloom_file' = BLOOM
    /\ UNCHANGED <<crawl_db, storage_db, indexer_vars, queues, dispatcher_vars, fetcher,
                   domain_mgr, ROBOTS_CACHE, BLOOM, seen_hashes, web, rest, history>>

(* --------------------------- restart, time ----------------------------- *)
\* UPDATE frontier SET status=0 WHERE status=1
recover(fr) ==
    [u \in DOMAIN fr |-> IF fr[u].status = 1 THEN [fr[u] EXCEPT !.status = 0] ELSE fr[u]]

\* the crawler process dies and main() runs again: recover(), fresh queues,
\* ring, DomainManager and robots cache; db_writer preloads seen_hashes from
\* visited and loads the Bloom snapshot.  recovered: whether recover()'s
\* UPDATE commits; when it raises, except Exception: pass goes on to the threads
Restart(recovered) ==
    /\ frontier' = IF recovered THEN recover(frontier) ELSE frontier
    /\ ever_terminal' = ever_terminal \cup Terminal(frontier')
    /\ lease_expired' = {}
    /\ FETCH_QUEUE' = <<>> /\ PARSE_QUEUE' = <<>> /\ WRITE_QUEUE' = <<>>
    /\ dispatched_cache' = <<>> /\ disp_pending' = <<>>
    /\ fetcher' = [f \in Fetchers |-> IdleFetcher]
    /\ locks' = [d \in Domains |-> None]
    /\ last_access' = [d \in Domains |-> "old"]
    /\ failures' = [d \in Domains |-> 0]
    /\ page_counts' = [d \in Domains |-> 0]
    /\ ROBOTS_CACHE' = [d \in Domains |-> None]
    /\ seen_hashes' = {visited[u].content_hash : u \in DOMAIN visited}
    /\ BLOOM' = bloom_file
    /\ main' = "monitor" /\ parsing' = <<>> /\ batch_hold' = <<>>
    /\ conn_storage' = "idle"
    /\ UNCHANGED <<visited, link_graph, storage_db, indexer_vars, bloom_file, web,
                   start_recent, faults, app_vars, unit_vars>>

\* a kill and a restart whose recover() commits
CrashRestart == Restart(TRUE)

\* a kill and a restart whose recover() raises (the Crawl database is locked
\* by another process for longer than the connection's timeout)
CrashRestartLocked == Restart(FALSE)

\* time passes for a domain: its last access and last download start age
Tick(d) ==
    /\ last_access[d] # "old" \/ start_recent[d]
    /\ last_access' = [last_access EXCEPT ![d] =
                          IF @ = "recent" THEN "cooling" ELSE "old"]
    /\ start_recent' = [start_recent EXCEPT ![d] = FALSE]
    /\ UNCHANGED <<crawl_db, storage_db, indexer_vars, queues, dispatcher_vars, fetcher,
                   locks, failures, page_counts, ROBOTS_CACHE, writer_mem, web, rest,
                   ever_terminal, lease_expired, faults>>

\* 15 minutes pass since a reservation
LeaseExpire(u) ==
    /\ u \in DOMAIN frontier
    /\ frontier[u].status = 1 /\ frontier[u].reserved_at = "set"
    /\ u \notin lease_expired
    /\ lease_expired' = lease_expired \cup {u}
    /\ UNCHANGED <<crawl_db, storage_db, indexer_vars, queues, dispatcher_vars,
                   fetcher, domain_mgr, ROBOTS_CACHE, writer_mem, web, rest, start_recent,
                   ever_terminal, faults>>

\* ROBOTS_TTL passes since a domain's robots.txt was cached: the entry no longer counts
RobotsExpire(d) ==
    /\ ROBOTS_CACHE[d] # None
    /\ ROBOTS_CACHE' = [ROBOTS_CACHE EXCEPT ![d] = None]
    /\ UNCHANGED <<crawl_db, storage_db, indexer_vars, queues, dispatcher_vars, fetcher,
                   domain_mgr, writer_mem, web, rest, history>>

(* ------------------------ web application: /search --------------------- *)
\* the urls of the indexed pages, and the scores calculate_score gives a row
\* before the diversity term (multiples of 5, so that * 0.8 is exact)
\* (A/1 is a/1 with its host in capitals)
SearchUrls == {"a/1", "a/2", "www.a/1", "b/1", "A/1"}
Scores == {100, 110}

\* urlparse(url).netloc
UrlNetloc(u) ==
    IF u \in {"a/1", "a/2"} THEN "a"
    ELSE IF u = "www.a/1" THEN "www.a"
    ELSE IF u = "A/1" THEN "A" ELSE "b"

\* re.sub(r"^https?://(www\.)?", "", url.strip("/")).rstrip("/")
Norm(u) == IF u = "www.a/1" THEN "a/1" ELSE u

\* str.lower
Lower(u) == IF u = "A/1" THEN "a/1" ELSE IF u = "A" THEN "a" ELSE u

\* the rows an FTS query can return
SearchRows == [url : SearchUrls, score : Scores]
RowLists == UNION {[1..n -> SearchRows] : n \in 0..MaxRows}

\* what the OR-joined query matches beyond the rows of the AND-joined one:
\* nothing, or one more row
ExtraRows == {<<>>} \cup {<<r>> : r \in SearchRows}

\* the slug of the modelled queries: they name host a
QuerySlug == "a"

\* nav_slug in netloc, on the modelled netlocs
SlugIn(nav_slug, netloc) == nav_slug = "a" /\ netloc \in {"a", "www.a"}

\* where the environment makes the handler raise
FaultPoints == {"none", "connect", "execute", "fallback", "scoring", "snippet"}

\* a request with an empty q
EmptyQuery == [terms |-> 0, rows |-> <<>>, extra |-> <<>>, fault |-> "none"]

\* the /search requests: the number of base terms of q, the rows the index
\* returns for the AND-joined query, what the OR-joined query adds to them,
\* and the fault of the environment
Requests ==
    {EmptyQuery} \cup
    [terms : 1..MaxTerms, rows : RowLists, extra : ExtraRows, fault : FaultPoints]

\* dict.get / dict assignment on RATE_LIMIT
Put(dict, key, val) == [k \in DOMAIN dict \cup {key} |-> IF k = key THEN val ELSE dict[k]]

\* check_rate_limit(ip) at time t: the verdict and the table afterwards
check_rate_limit(table, ip, t) ==
    LET tbl == IF Cardinality(DOMAIN table) > RateTableMax THEN <<>> ELSE table
    IN  IF ip \notin DOMAIN tbl
        THEN [ok |-> TRUE, table |-> Put(tbl, ip, [start |-> t, count |-> 1])]
        ELSE IF t - tbl[ip].start > RateLimitWindow
        THEN [ok |-> TRUE, table |-> Put(tbl, ip, [start |-> t, count |-> 1])]
        ELSE IF tbl[ip].count >= RateLimitMax
        THEN [ok |-> FALSE, table |-> tbl]
        ELSE [ok |-> TRUE, table |-> Put(tbl, ip, [start |-> tbl[ip].start,
                                                   count |-> tbl[ip].count + 1])]

\* the loop over rows with seen_norm: the first row of every normalised url
RECURSIVE Dedupe(_, _)
Dedupe(rows, seen_norm) ==
    IF rows = <<>> THEN <<>>
    ELSE IF Norm(Head(rows).url) \in seen_norm THEN Dedupe(Tail(rows), seen_norm)
    ELSE <<Head(rows)>> \o Dedupe(Tail(rows), seen_norm \cup {Norm(Head(rows).url)})

\* domain_counts.get(domain, 0)
Get(domain_counts, domain) ==
    IF domain \in DOMAIN domain_counts THEN domain_counts[domain] ELSE 0

\* intent_boost: 180.0 for a navigational query whose nav_slug is in the netloc
intent_boost(intent, netloc, nav_slug) ==
    IF intent = "navigational" /\ nav_slug # None /\ SlugIn(nav_slug, netloc)
    THEN NavBoost ELSE 0

\* calculate_score: row.score stands for the terms that depend on the row
\* alone; score += intent_boost(intent, domain, nav_slug);
\* score -= domain_counts.get(domain, 0) * 15.0
calculate_score(row, intent, nav_slug, domain_counts) ==
    row.score + intent_boost(intent, UrlNetloc(row.url), nav_slug)
              - Get(domain_counts, UrlNetloc(row.url)) * DiversityPenalty

\* score = calculate_score(..., intent, nav_slug=None, domain_counts={});
\* if fallback_triggered: score *= 0.8
PreScore(row, intent, fallback_triggered) ==
    LET score == calculate_score(row, intent, None, <<>>)
    IN  [url |-> row.url,
         score |-> IF fallback_triggered THEN (score * 4) \div 5 ELSE score]

\* a handler that tries the loose query whenever the strict one returned few rows
FallbackTriggered_few_rows(rows, terms) == Len(rows) < FallbackBelow

\* if len(rows) < 5 and len(base_terms) > 1: fallback_triggered = True
FallbackTriggered(rows, terms) == Len(rows) < FallbackBelow /\ terms > 1

\* list.sort(key=lambda x: x[0], reverse=True): stable, equal scores keep their order
RECURSIVE InsertDesc(_, _)
InsertDesc(sorted, x) ==
    IF sorted = <<>> THEN <<x>>
    ELSE IF Head(sorted).score >= x.score THEN <<Head(sorted)>> \o InsertDesc(Tail(sorted), x)
    ELSE <<x>> \o sorted

RECURSIVE SortDesc(_)
SortDesc(seq) ==
    IF seq = <<>> THEN <<>>
    ELSE InsertDesc(SortDesc(SubSeq(seq, 1, Len(seq) - 1)), seq[Len(seq)])

\* a penalty that does not grow with the count
penalty_flat(count) == DiversityPenalty

\* penalty = count * 15.0
penalty(count) == count * DiversityPenalty

\* the loop over pre_scored: final_score = score - penalty, domain_counts[domain] += 1
RECURSIVE Diversify(_, _)
Diversify(pre_scored, domain_counts) ==
    IF pre_scored = <<>> THEN <<>>
    ELSE LET domain == UrlNetloc(Head(pre_scored).url)
             count == Get(domain_counts, domain)
         IN  <<[url |-> Head(pre_scored).url,
                score |-> Head(pre_scored).score - penalty(count)]>>
             \o Diversify(Tail(pre_scored), Put(domain_counts, domain, count + 1))

\* what a request leaves behind: the HTTP status, the view, results and count
\* of the template, the exception raised on the way, and the two score lists
Response(status, view, results, count, raised, fallback, pre_scored, final_scored) ==
    [status |-> status, view |-> view, results |-> results, count |-> count,
     raised |-> raised, fallback |-> fallback, pre_scored |-> pre_scored,
     final_scored |-> final_scored]

NoResponse == Response(0, "none", <<>>, 0, "none", FALSE, <<>>, <<>>)

\* search() after the rate limit let the request pass.  An exception outside
\* the try block, or the unbound local `suggestion` at render_template when
\* the first execute raised, ends the request with status 500.
search(req) ==
    LET intent == IF req.terms <= NavTermsMax THEN "navigational" ELSE "informational"
        fallback_triggered == FallbackTriggered(req.rows, req.terms)
        rows == IF fallback_triggered THEN req.rows \o req.extra ELSE req.rows
        kept == Dedupe(rows, {})
        pre_scored == SortDesc([i \in 1..Len(kept) |->
                                   PreScore(kept[i], intent, fallback_triggered)])
        final_scored == Diversify(pre_scored, <<>>)
        ranked == SortDesc(final_scored)
        page_rows == SubSeq(ranked, 1, Min(PER_PAGE, Len(ranked)))
        urls == [i \in 1..Len(page_rows) |-> page_rows[i].url]
    IN  IF req.terms = 0
        THEN Response(200, "index", <<>>, 0, "none", FALSE, <<>>, <<>>)
        ELSE IF req.fault = "connect"
        THEN Response(500, "error", <<>>, 0, "connect", FALSE, <<>>, <<>>)
        ELSE IF req.fault = "execute"
        THEN Response(500, "error", <<>>, 0, "execute", FALSE, <<>>, <<>>)
        ELSE IF req.fault = "fallback" /\ fallback_triggered
        THEN Response(200, "results", <<>>, 0, "fallback", TRUE, <<>>, <<>>)
        ELSE IF req.fault = "scoring" /\ kept # <<>>
        THEN Response(200, "results", <<>>, 0, "scoring", fallback_triggered, <<>>, <<>>)
        ELSE IF req.fault = "snippet" /\ page_rows # <<>>
        THEN Response(200, "results", SubSeq(urls, 1, Len(urls) - 1), Len(final_scored),
                      "snippet", fallback_triggered, pre_scored, final_scored)
        ELSE Response(200, "results", urls, Len(final_scored), "none", fallback_triggered,
                      pre_scored, final_scored)

\* GET /search from ip: check_rate_limit, then search
Search(ip, req) ==
    LET rl == check_rate_limit(RATE_LIMIT, ip, now)
    IN  /\ RATE_LIMIT' = rl.table
        /\ accepted' = IF rl.ok THEN [accepted EXCEPT ![ip] = Append(@, now)] ELSE accepted
        /\ rejected' = IF rl.ok THEN rejected
                       ELSE [rejected EXCEPT ![ip] = <<rl.table[ip].start>>]
        /\ resp' = IF rl.ok THEN search(req)
                   ELSE Response(429, "rate limit", <<>>, 0, "none", FALSE, <<>>, <<>>)
        /\ UNCHANGED <<crawl_db, storage_db, indexer_vars, queues, dispatcher_vars, fetcher,
                       domain_mgr, ROBOTS_CACHE, writer_mem, web, history, main_vars,
                       conn_storage, now, unit_vars>>

\* the request that was about to arrive is served
ServeRequest ==
    /\ request # <<>>
    /\ \E ip \in Ips : Search(ip, request[1])
    /\ request' = <<>>

\* a request with an empty q: nothing but the rate limit
HomeRequest ==
    /\ \E ip \in Ips : Search(ip, EmptyQuery)
    /\ UNCHANGED request

\* a tick of time.time()
ClockTick ==
    /\ now < MaxClock
    /\ now' = now + 1
    /\ UNCHANGED <<crawl_db, storage_db, indexer_vars, queues, dispatcher_vars, fetcher,
                   domain_mgr, ROBOTS_CACHE, writer_mem, web, history, main_vars,
                   conn_storage, RATE_LIMIT, accepted, rejected, resp, request, unit_vars>>

(* ------------------------- main thread, shutdown ----------------------- *)
\* the threads are daemons: they run until the process exits
Running == main # "exited"

\* KeyboardInterrupt in monitor_loop: the first Ctrl+C
Sigint ==
    /\ main = "monitor"
    /\ main' = "discard"
    /\ UNCHANGED <<crawl_db, storage_db, indexer_vars, queues, dispatcher_vars, fetcher,
                   domain_mgr, ROBOTS_CACHE, writer_mem, web, history, parsing, batch_hold,
                   conn_storage, app_vars, unit_vars>>

\* while not FETCH_QUEUE.empty(): FETCH_QUEUE.get_nowait()
DiscardFetch ==
    /\ main = "discard"
    /\ IF FETCH_QUEUE # <<>>
       THEN FETCH_QUEUE' = Tail(FETCH_QUEUE) /\ UNCHANGED main
       ELSE main' = "drain" /\ UNCHANGED FETCH_QUEUE
    /\ UNCHANGED <<crawl_db, storage_db, indexer_vars, PARSE_QUEUE, WRITE_QUEUE,
                   dispatcher_vars, fetcher, domain_mgr, ROBOTS_CACHE, writer_mem, web,
                   history, parsing, batch_hold, conn_storage, app_vars, unit_vars>>

\* while not PARSE_QUEUE.empty() or not WRITE_QUEUE.empty(): sleep; the loop
\* ends at a test that finds both queues empty
DrainLoop ==
    /\ main = "drain"
    /\ PARSE_QUEUE = <<>> /\ WRITE_QUEUE = <<>>
    /\ main' = "checkpoint"
    /\ UNCHANGED <<crawl_db, storage_db, indexer_vars, queues, dispatcher_vars, fetcher,
                   domain_mgr, ROBOTS_CACHE, writer_mem, web, history, parsing, batch_hold,
                   conn_storage, app_vars, unit_vars>>

\* PRAGMA wal_checkpoint(TRUNCATE) on the three databases (no row changes),
\* "Crawler stopped", and main returns: the process and its daemon threads end
Checkpoint ==
    /\ main = "checkpoint"
    /\ main' = "exited"
    /\ UNCHANGED <<crawl_db, storage_db, indexer_vars, queues, dispatcher_vars, fetcher,
                   domain_mgr, ROBOTS_CACHE, writer_mem, web, history, parsing, batch_hold,
                   conn_storage, app_vars, unit_vars>>

(* ------------------------------- indexer ------------------------------- *)
Digits == <<"0", "1", "2", "3", "4", "5", "6", "7", "8", "9">>

\* str(rowid)
RECURSIVE str(_)
str(n) == IF n < 10 THEN Digits[n + 1] ELSE str(n \div 10) \o Digits[(n % 10) + 1]

\* int(content) of a string str wrote (no rowid exceeds next_rowid)
int(content) == CHOOSE n \in 0..next_rowid : str(n) = content

get_last_indexed_id(file) ==
    IF ~file.exists THEN 0
    ELSE IF file.content = "" THEN 0 ELSE int(file.content)

\* run_pagerank_job before its first call
RankIdle == [pc |-> "idle", attempt |-> 0, last |-> None, edges |-> {}]

\* the indexer process when it is not running
IndexerDown == [pc |-> "down", last_id |-> 0, waited |-> FALSE, batch |-> <<>>]

\* SELECT MAX(rowid) FROM html_storage, 0 for an empty table
CurrentMaxId(rows) == IF rows = <<>> THEN 0 ELSE rows[Len(rows)].rowid

\* an indexer that buffers below MIN_BATCH_SIZE however long it has waited
Buffering_forever(rows, i) == CurrentMaxId(rows) - i.last_id < MinBatchSize

\* pending_count < MIN_BATCH_SIZE and time.time() - last_process_time < MAX_WAIT_TIME
Buffering(rows, i) == CurrentMaxId(rows) - i.last_id < MinBatchSize /\ ~i.waited

\* WHERE rowid > ? AND parsed_text IS NOT NULL ORDER BY rowid ASC LIMIT ?
SelectBatch(rows, last_id) ==
    LET pending == SelectSeq(rows, LAMBDA r : r.rowid > last_id /\ r.parsed_text # None)
    IN  SubSeq(pending, 1, Min(IndexBatchSize, Len(pending)))

\* max_id_in_batch after the loop over the rows
RECURSIVE MaxIdInBatch(_, _)
MaxIdInBatch(batch, max_id) ==
    IF batch = <<>> THEN max_id
    ELSE MaxIdInBatch(Tail(batch), IF Head(batch).rowid > max_id THEN Head(batch).rowid
                                   ELSE max_id)

\* langdetect on the text: "unknown" for a text of at most 200 characters
detect(text) == IF text = "x" THEN "en" ELSE "unknown"

\* UPDATE visited SET language=? WHERE url=? for the rows whose language was detected
LangUpdate(vis, batch) ==
    [u \in DOMAIN vis |->
        IF \E k \in 1..Len(batch) : batch[k].url = u /\ detect(batch[k].parsed_text) # "unknown"
        THEN [vis[u] EXCEPT !.language = detect(web.content[u])]
        ELSE vis[u]]

\* run_indexer starts: last_id = get_last_indexed_id()
IndexerStart ==
    /\ idx.pc = "down"
    /\ idx' = [IndexerDown EXCEPT !.pc = "loop", !.last_id = get_last_indexed_id(state_file)]
    /\ started_ids' = Append(started_ids, get_last_indexed_id(state_file))
    /\ UNCHANGED <<crawl_db, storage_db, search_index, state_file, search_log, crashes,
                   rank, queues, dispatcher_vars, fetcher, domain_mgr, ROBOTS_CACHE, writer_mem,
                   web, rest, history>>

\* MAX_WAIT_TIME passes since the last productive pass
WaitElapsed ==
    /\ idx.pc = "loop" /\ ~idx.waited
    /\ idx' = [idx EXCEPT !.waited = TRUE]
    /\ UNCHANGED <<crawl_db, storage_db, search_index, state_file, search_log, started_ids,
                   crashes, rank, queues, dispatcher_vars, fetcher, domain_mgr, ROBOTS_CACHE,
                   writer_mem, web, rest, history>>

\* a pass of the loop that does not buffer and finds rows (the passes that
\* buffer or find none change nothing)
IndexerSelect ==
    /\ idx.pc = "loop"
    /\ ~Buffering(html_storage, idx)
    /\ SelectBatch(html_storage, idx.last_id) # <<>>
    /\ idx' = [idx EXCEPT !.pc = "commit", !.batch = SelectBatch(html_storage, idx.last_id)]
    /\ UNCHANGED <<crawl_db, storage_db, search_index, state_file, search_log, started_ids,
                   crashes, rank, queues, dispatcher_vars, fetcher, domain_mgr, ROBOTS_CACHE,
                   writer_mem, web, rest, history>>

\* INSERT INTO search_index ... commit, then the language update on Crawl
IndexerCommit ==
    /\ idx.pc = "commit"
    /\ search_index' = search_index \o [k \in 1..Len(idx.batch) |-> idx.batch[k].url]
    /\ search_log' = search_log \cup {idx.batch[k].rowid : k \in 1..Len(idx.batch)}
    /\ visited' = LangUpdate(visited, idx.batch)
    /\ idx' = [idx EXCEPT !.pc = "open"]
    /\ UNCHANGED <<frontier, link_graph, storage_db, state_file, started_ids, crashes,
                   rank, queues, dispatcher_vars, fetcher, domain_mgr, ROBOTS_CACHE, writer_mem,
                   web, rest, history>>

\* an indexer that goes on to the cursor after a failed Search transaction
AfterSearchError_goes_on(i) == [i EXCEPT !.pc = "open"]

\* except sqlite3.OperationalError / Exception: sleep, next pass of the loop
AfterSearchError(i) == [i EXCEPT !.pc = "loop", !.batch = <<>>]

\* the Search transaction raises: nothing is committed
IndexerSearchError ==
    /\ idx.pc = "commit"
    /\ idx' = AfterSearchError(idx)
    /\ UNCHANGED <<crawl_db, storage_db, search_index, state_file, search_log, started_ids,
                   crashes, rank, queues, dispatcher_vars, fetcher, domain_mgr, ROBOTS_CACHE,
                   writer_mem, web, rest, history>>

\* update_last_indexed_id: open(STATE_FILE, "w") creates or truncates the file
IndexerOpenState ==
    /\ idx.pc = "open"
    /\ state_file' = [exists |-> TRUE, content |-> ""]
    /\ idx' = [idx EXCEPT !.pc = "write"]
    /\ UNCHANGED <<crawl_db, storage_db, search_index, search_log, started_ids, crashes,
                   rank, queues, dispatcher_vars, fetcher, domain_mgr, ROBOTS_CACHE, writer_mem,
                   web, rest, history>>

\* f.write(str(rowid)) and close; last_id = max_id_in_batch; last_process_time = now
IndexerWriteState ==
    /\ idx.pc = "write"
    /\ LET max_id_in_batch == MaxIdInBatch(idx.batch, idx.last_id)
       IN  /\ state_file' = [exists |-> TRUE, content |-> str(max_id_in_batch)]
           /\ idx' = [pc |-> "loop", last_id |-> max_id_in_batch, waited |-> FALSE,
                      batch |-> <<>>]
    /\ UNCHANGED <<crawl_db, storage_db, search_index, search_log, started_ids, crashes,
                   rank, queues, dispatcher_vars, fetcher, domain_mgr, ROBOTS_CACHE, writer_mem,
                   web, rest, history>>

\* the indexer process is killed, wherever it is
IndexerCrash ==
    /\ idx.pc # "down"
    /\ crashes < MaxCrashes
    /\ crashes' = crashes + 1
    /\ idx' = IndexerDown
    /\ UNCHANGED <<crawl_db, storage_db, search_index, state_file, search_log, started_ids,
                   rank, queues, dispatcher_vars, fetcher, domain_mgr, ROBOTS_CACHE, writer_mem,
                   web, rest, history>>

(* ---------------------- indexer: the title of a row -------------------- *)
\* strings are sequences of characters; Nl is the line feed
Nl == "\n"
Prefix(str_, n) == SubSeq(str_, 1, IF Len(str_) < n THEN Len(str_) ELSE n)

\* str.split('\n'): the lines of a text, at least one
RECURSIVE Split(_)
Split(text) ==
    IF \A i \in 1..Len(text) : text[i] # Nl THEN <<text>>
    ELSE LET i == CHOOSE k \in 1..Len(text) :
                     text[k] = Nl /\ \A j \in 1..(k - 1) : text[j] # Nl
         IN  <<SubSeq(text, 1, i - 1)>> \o Split(SubSeq(text, i + 1, Len(text)))

\* str.strip(): without the white space at both ends
RECURSIVE Strip(_)
Strip(line) ==
    IF line = <<>> THEN line
    ELSE IF Head(line) \in {" ", Nl} THEN Strip(Tail(line))
    ELSE IF line[Len(line)] \in {" ", Nl} THEN Strip(SubSeq(line, 1, Len(line) - 1))
    ELSE line

\* for line in lines[:3]: if line.strip(): final_title = line.strip()[:80]; break
RECURSIVE FirstLine(_, _)
FirstLine(lines, otherwise) ==
    IF lines = <<>> THEN otherwise
    ELSE IF Strip(Head(lines)) # <<>> THEN Prefix(Strip(Head(lines)), TitleMax)
    ELSE FirstLine(Tail(lines), otherwise)

\* final_title = title if title else (url); the lines of the text are
\* looked at only when that is empty
final_title(row) ==
    LET first == IF row.title # <<>> THEN row.title ELSE row.url
    IN  IF first = <<>> /\ row.parsed_text # <<>>
        THEN FirstLine(Prefix(Split(row.parsed_text), LinesTried), first)
        ELSE first

\* the strings of at most n of these characters
StrsUpTo(chars, n) == UNION {[1..k -> chars] : k \in 0..n}

\* the rows of html_storage as the indexer selects them: url, title, parsed_text.
\* A url is never empty; one of the two is longer than TitleMax
StorageRows ==
    [url : {<<"u">>} \cup {[i \in 1..(TitleMax + 1) |-> "u"]},
     title : StrsUpTo({"t"}, MaxTitleLen),
     parsed_text : StrsUpTo({"x", " ", Nl}, MaxTextLen)]

NoTitling == [row |-> <<>>, out |-> <<>>]

\* the loop body of run_indexer on one row: the title of its to_insert entry
IndexTitle ==
    /\ titling.row # <<>> /\ titling.out = <<>>
    /\ titling' = [titling EXCEPT !.out = <<final_title(titling.row[1])>>]
    /\ UNCHANGED <<crawl_db, storage_db, indexer_vars, queues, dispatcher_vars, fetcher,
                   domain_mgr, ROBOTS_CACHE, writer_mem, web, history, main_vars,
                   conn_storage, app_vars>>

(* ------------------------- indexer: PageRank job ----------------------- *)
\* the nodes of networkx.DiGraph after add_edges_from(edges)
GraphNodes(edges) == {e[1] : e \in edges} \cup {e[2] : e \in edges}

\* score * 100000 of a node: positive for every node and growing with its
\* in-links (the real values are floats; only their being written matters here)
PageRankScore(edges, u) == 1 + Cardinality({e \in edges : e[2] = u})

\* UPDATE visited SET page_rank = ? WHERE url = ?, for every node of the graph
UpdatePageRank(vis, edges) ==
    [u \in DOMAIN vis |-> IF u \in GraphNodes(edges)
                          THEN [vis[u] EXCEPT !.page_rank = PageRankScore(edges, u)]
                          ELSE vis[u]]

\* what a database call of the job meets: it succeeds, sqlite3.OperationalError
\* with "locked" in its text, another OperationalError, or another exception
RankOutcomes == {"ok", "locked", "sqlite_error", "error"}

\* a job that goes to its next attempt after any exception
AfterRankError_retry_any(r, e) ==
    IF r.attempt < PageRankMaxRetries
    THEN [r EXCEPT !.pc = "read", !.attempt = @ + 1, !.last = e, !.edges = {}]
    ELSE [r EXCEPT !.pc = "done", !.last = e, !.edges = {}]

\* the except clauses: "locked" sleeps 10 s and goes to the next attempt of
\* range(1, MAX_RETRIES + 1), if any; every other exception returns
AfterRankError(r, e) ==
    IF e = "locked" /\ r.attempt < PageRankMaxRetries
    THEN [r EXCEPT !.pc = "read", !.attempt = @ + 1, !.last = e, !.edges = {}]
    ELSE [r EXCEPT !.pc = "done", !.last = e, !.edges = {}]

\* run_indexer: PAGERANK_INTERVAL has passed, run_pagerank_job() is called
RankStart ==
    /\ idx.pc = "loop"
    /\ rank.pc \in {"idle", "done"}
    /\ rank' = [pc |-> "read", attempt |-> 1, last |-> None, edges |-> {}]
    /\ UNCHANGED <<crawl_db, storage_db, search_index, state_file, idx, search_log,
                   started_ids, crashes, queues, dispatcher_vars, fetcher, domain_mgr,
                   ROBOTS_CACHE, writer_mem, web, rest, history>>

\* an attempt connects and reads link_graph; no edges: return
RankRead ==
    /\ rank.pc = "read"
    /\ \E e \in RankOutcomes :
         rank' = IF e # "ok" THEN AfterRankError(rank, e)
                 ELSE IF link_graph = {}
                      THEN [rank EXCEPT !.pc = "done", !.last = "no_links"]
                      ELSE [rank EXCEPT !.pc = "write", !.edges = link_graph]
    /\ UNCHANGED <<crawl_db, storage_db, search_index, state_file, idx, search_log,
                   started_ids, crashes, queues, dispatcher_vars, fetcher, domain_mgr,
                   ROBOTS_CACHE, writer_mem, web, rest, history>>

\* the attempt computes the scores of the edges it read and writes them
RankWrite ==
    /\ rank.pc = "write"
    /\ \E e \in RankOutcomes :
         IF e = "ok"
         THEN /\ visited' = UpdatePageRank(visited, rank.edges)
              /\ rank' = [rank EXCEPT !.pc = "done", !.last = "updated", !.edges = {}]
         ELSE /\ rank' = AfterRankError(rank, e)
              /\ UNCHANGED visited
    /\ UNCHANGED <<frontier, link_graph, storage_db, search_index, state_file, idx,
                   search_log, started_ids, crashes, queues, dispatcher_vars, fetcher,
                   domain_mgr, ROBOTS_CACHE, writer_mem, web, rest, history>>

(* --------------------------- specification ----------------------------- *)
\* the modelled web: a and b are two hosts, a1 and a2 serve the same page,
\* a1 links to a2; host a may disallow crawling
Webs ==
    {[robots |-> r,
      content |-> [u \in Urls |-> IF Netloc(u) = "a" THEN "x" ELSE "y"],
      links |-> [u \in Urls |-> IF u = "a1" THEN {"a2"} ELSE {}],
      maxlen |-> RingMax, batch_size |-> BatchSize,
              max_pages |-> MaxPagesPerDomain] :
        r \in {[a |-> "allow", b |-> "allow"], [a |-> "deny", b |-> "allow"]}}

IndexerIdle ==
    /\ search_index = <<>>
    /\ state_file = [exists |-> FALSE, content |-> ""]
    /\ idx = IndexerDown
    /\ search_log = {}
    /\ started_ids = <<>>
    /\ crashes = 0
    /\ rank = RankIdle

\* the web application before its first request
AppIdle ==
    /\ RATE_LIMIT = <<>>
    /\ now = 0
    /\ accepted = [ip \in Ips |-> <<>>]
    /\ rejected = [ip \in Ips |-> <<>>]
    /\ resp = NoResponse
    /\ request = <<>>
    /\ titling = NoTitling

CrawlerFresh ==
    /\ FETCH_QUEUE = <<>> /\ PARSE_QUEUE = <<>> /\ WRITE_QUEUE = <<>>
    /\ dispatched_cache = <<>> /\ disp_pending = <<>>
    /\ fetcher = [f \in Fetchers |-> IdleFetcher]
    /\ locks = [d \in Domains |-> None]
    /\ last_access = [d \in Domains |-> "old"]
    /\ failures = [d \in Domains |-> 0]
    /\ page_counts = [d \in Domains |-> 0]
    /\ ROBOTS_CACHE = [d \in Domains |-> None]
    /\ BLOOM = {} /\ bloom_file = {} /\ seen_hashes = {}
    /\ start_recent = [d \in Domains |-> FALSE]
    /\ ever_terminal = {} /\ lease_expired = {} /\ faults = 0
    /\ main = "monitor" /\ parsing = <<>> /\ batch_hold = <<>>
    /\ conn_storage = "idle"

\* the crawler started on a frontier seeded with a1 and a2, empty stores
Init ==
    /\ frontier = [u \in {"a1", "a2"} |-> NewFrontierRow]
    /\ visited = <<>>
    /\ link_graph = {}
    /\ html_storage = <<>>
    /\ next_rowid = 1
    /\ web \in Webs
    /\ CrawlerFresh
    /\ IndexerIdle
    /\ AppIdle

\* the threads of the crawl pipeline, with no failure
Pipeline ==
    \/ DispatchTick
    \/ DispatchPut
    \/ \E f \in Fetchers :
         \/ FetchGet(f)
         \/ RobotsLookup(f)
         \/ RobotsFetched(f)
         \/ LockAndStart(f)
         \/ DownloadOk(f)
         \/ FetchFinish(f)
    \/ Parse
    \/ WriterBatch

\* network failures
Failures == \E f \in Fetchers : RobotsNetFail(f) \/ DownloadError(f)

\* the running crawler: any interleaving of its threads, network failures,
\* time and lease expiry
Next ==
    \/ Pipeline
    \/ Failures
    \/ \E d \in Domains : Tick(d)
    \/ \E u \in Urls : LeaseExpire(u)

Spec == Init /\ [][Next]_vars

\* the crawler with network failures, over kills and restarts
NextRestart ==
    \/ Pipeline
    \/ Failures
    \/ BloomSave
    \/ CrashRestart
    \/ \E d \in Domains : Tick(d) \/ RobotsExpire(d)

SpecRestart == Init /\ [][NextRestart]_vars

\* a1 and b1, pages of different content on two hosts that allow crawling
InitIndexer ==
    /\ frontier = [u \in {"a1", "b1"} |-> NewFrontierRow]
    /\ visited = <<>>
    /\ link_graph = {}
    /\ html_storage = <<>>
    /\ next_rowid = 1
    /\ web = [robots |-> [d \in Domains |-> "allow"],
              content |-> [u \in Urls |-> IF Netloc(u) = "a" THEN "x" ELSE "y"],
              links |-> [u \in Urls |-> {}],
              maxlen |-> RingMax, batch_size |-> BatchSize,
              max_pages |-> MaxPagesPerDomain]
    /\ CrawlerFresh
    /\ IndexerIdle
    /\ AppIdle

\* the crawler filling Storage and the indexer process, which may be killed
NextIndexer ==
    \/ Pipeline
    \/ IndexerStart
    \/ WaitElapsed
    \/ IndexerSelect
    \/ IndexerCommit
    \/ IndexerSearchError
    \/ IndexerOpenState
    \/ IndexerWriteState
    \/ IndexerCrash

SpecIndexer == InitIndexer /\ [][NextIndexer]_vars

\* the crawler filling Storage beside an indexer that is never killed and
\* meets no database error
NextIndexerLive ==
    \/ Pipeline
    \/ IndexerStart
    \/ WaitElapsed
    \/ IndexerSelect
    \/ IndexerCommit
    \/ IndexerOpenState
    \/ IndexerWriteState

\* the indexer process is started and its loop keeps running, and time
\* keeps passing (nothing is asked of the crawler)
IndexerFairness ==
    /\ WF_vars(IndexerStart)
    /\ WF_vars(WaitElapsed)
    /\ WF_vars(IndexerSelect)
    /\ WF_vars(IndexerCommit)
    /\ WF_vars(IndexerOpenState)
    /\ WF_vars(IndexerWriteState)

SpecIndexerLive == InitIndexer /\ [][NextIndexerLive]_vars /\ IndexerFairness

\* the PageRank job of a running indexer beside the crawler, with database
\* errors in the job
NextRank ==
    \/ Pipeline
    \/ IndexerStart
    \/ RankStart
    \/ RankRead
    \/ RankWrite

\* the job's thread keeps running: every database call returns or raises
RankFairness == WF_vars(RankRead) /\ WF_vars(RankWrite)

SpecRank == Init /\ [][NextRank]_vars /\ RankFairness

\* the crawler over kills and restarts beside the indexer and its PageRank
\* job, on the web that allows crawling
InitResave == Init /\ web.robots["a"] = "allow"

NextResave ==
    \/ Pipeline
    \/ CrashRestart
    \/ IndexerStart
    \/ WaitElapsed
    \/ IndexerSelect
    \/ IndexerCommit
    \/ IndexerOpenState
    \/ IndexerWriteState
    \/ RankStart
    \/ RankRead
    \/ RankWrite

SpecResave == InitResave /\ [][NextResave]_vars

\* a1 and a2 of host a, which answers 200 and allows crawling, no links; the
\* ring and one batch hold the whole frontier
InitPolite ==
    /\ frontier = [u \in {"a1", "a2"} |-> NewFrontierRow]
    /\ visited = <<>>
    /\ link_graph = {}
    /\ html_storage = <<>>
    /\ next_rowid = 1
    /\ web = [robots |-> [d \in Domains |-> "allow"],
              content |-> [u \in Urls |-> IF Netloc(u) = "a" THEN "x" ELSE "y"],
              links |-> [u \in Urls |-> {}],
              maxlen |-> WideRing, batch_size |-> WideBatch, max_pages |-> WideCap]
    /\ CrawlerFresh
    /\ IndexerIdle
    /\ AppIdle

NextPolite ==
    \/ Pipeline
    \/ \E d \in Domains : Tick(d)

\* every thread keeps running and time keeps passing
Fairness ==
    /\ WF_vars(DispatchTick)
    /\ WF_vars(DispatchPut)
    /\ \A f \in Fetchers :
         /\ WF_vars(FetchGet(f))
         /\ WF_vars(RobotsLookup(f))
         /\ WF_vars(RobotsFetched(f))
         /\ SF_vars(LockAndStart(f))
         /\ WF_vars(DownloadOk(f))
         /\ WF_vars(FetchFinish(f))
    /\ WF_vars(Parse)
    /\ WF_vars(WriterBatch)
    /\ \A d \in Domains : WF_vars(Tick(d))

SpecPolite == InitPolite /\ [][NextPolite]_vars /\ Fairness

\* a1 never tried, and b1 as earlier runs left it after up to three failed
\* downloads (priority 50, retry_count as the last retry statement set it);
\* both hosts allow crawling
FrontierAfterRetries ==
    {[a1 |-> NewFrontierRow,
      b1 |-> IF rc = 0 THEN NewFrontierRow
             ELSE [status |-> 0, retry_count |-> rc, priority |-> RetryPriority,
                   reserved_at |-> "set"]] : rc \in 0..FetchRetryLimit}

InitRetry ==
    /\ frontier \in FrontierAfterRetries
    /\ visited = <<>>
    /\ link_graph = {}
    /\ html_storage = <<>>
    /\ next_rowid = 1
    /\ web = [robots |-> [d \in Domains |-> "allow"],
              content |-> [u \in Urls |-> IF Netloc(u) = "a" THEN "x" ELSE "y"],
              links |-> [u \in Urls |-> {}],
              maxlen |-> RingMax, batch_size |-> BatchSize,
              max_pages |-> MaxPagesPerDomain]
    /\ CrawlerFresh
    /\ IndexerIdle
    /\ AppIdle

\* the crawler with network failures, as time passes
NextRetry ==
    \/ Pipeline
    \/ Failures
    \/ \E d \in Domains : Tick(d)

SpecRetry == InitRetry /\ [][NextRetry]_vars

\* a1 never tried, and b1 as earlier runs left it after up to five retries
\* (failed downloads, penalty-box hits, robots.txt fetch failures)
FrontierAfterPenalty ==
    {[a1 |-> NewFrontierRow,
      b1 |-> IF rc = 0 THEN NewFrontierRow
             ELSE [status |-> 0, retry_count |-> rc, priority |-> RetryPriority,
                   reserved_at |-> "set"]] : rc \in 0..PenaltyRetryLimit}

InitRetryMax ==
    /\ frontier \in FrontierAfterPenalty
    /\ visited = <<>>
    /\ link_graph = {}
    /\ html_storage = <<>>
    /\ next_rowid = 1
    /\ web = [robots |-> [d \in Domains |-> "allow"],
              content |-> [u \in Urls |-> IF Netloc(u) = "a" THEN "x" ELSE "y"],
              links |-> [u \in Urls |-> {}],
              maxlen |-> RingMax, batch_size |-> BatchSize,
              max_pages |-> MaxPagesPerDomain]
    /\ CrawlerFresh
    /\ IndexerIdle
    /\ AppIdle

SpecRetryMax == InitRetryMax /\ [][NextRetry]_vars

\* the web application beside an idle crawler
AppInit ==
    /\ frontier = [u \in {"a1", "a2"} |-> NewFrontierRow]
    /\ visited = <<>>
    /\ link_graph = {}
    /\ html_storage = <<>>
    /\ next_rowid = 1
    /\ web \in Webs
    /\ CrawlerFresh
    /\ IndexerIdle
    /\ RATE_LIMIT = <<>>
    /\ now = 0
    /\ accepted = [ip \in Ips |-> <<>>]
    /\ rejected = [ip \in Ips |-> <<>>]
    /\ resp = NoResponse
    /\ titling = NoTitling

\* the indexer with one selected row at hand, any of StorageRows
InitTitle ==
    /\ frontier = [u \in {"a1", "a2"} |-> NewFrontierRow]
    /\ visited = <<>>
    /\ link_graph = {}
    /\ html_storage = <<>>
    /\ next_rowid = 1
    /\ web \in Webs
    /\ CrawlerFresh
    /\ IndexerIdle
    /\ RATE_LIMIT = <<>>
    /\ now = 0
    /\ accepted = [ip \in Ips |-> <<>>]
    /\ rejected = [ip \in Ips |-> <<>>]
    /\ resp = NoResponse
    /\ request = <<>>
    /\ titling \in {[row |-> <<r>>, out |-> <<>>] : r \in StorageRows}

NextTitle == IndexTitle

SpecTitle == InitTitle /\ [][NextTitle]_vars

\* clients asking for /search with an empty q, as time passes
InitRate == AppInit /\ request = <<>>

NextRate == HomeRequest \/ ClockTick

SpecRate == InitRate /\ [][NextRate]_vars

\* the clients of a flood: one more address than the table holds before it is cleared
Clients == Ips \cup {"r"}

\* the web application before its first request, with the clients of a flood
InitFlood ==
    /\ frontier = [u \in {"a1", "a2"} |-> NewFrontierRow]
    /\ visited = <<>> /\ link_graph = {}
    /\ html_storage = <<>> /\ next_rowid = 1
    /\ web \in Webs
    /\ CrawlerFresh
    /\ IndexerIdle
    /\ RATE_LIMIT = <<>>
    /\ now = 0
    /\ accepted = [ip \in Clients |-> <<>>]
    /\ rejected = [ip \in Clients |-> <<>>]
    /\ resp = NoResponse
    /\ request = <<>>
    /\ titling = NoTitling

\* a request with an empty q from any of the clients, while the client has
\* been let pass fewer than MaxAccepted times
FloodRequest ==
    /\ \E ip \in Clients : Len(accepted[ip]) < MaxAccepted /\ Search(ip, EmptyQuery)
    /\ UNCHANGED request

NextFlood == FloodRequest \/ ClockTick

SpecFlood == InitFlood /\ [][NextFlood]_vars

\* one /search request, any of Requests
InitSearch == AppInit /\ request \in {<<r>> : r \in Requests}

NextSearch == ServeRequest

SpecSearch == InitSearch /\ [][NextSearch]_vars

\* the crawler until the process exits after one Ctrl+C: the threads, with
\* parse_worker and db_writer step by step, and the main thread
NextShutdown ==
    \/ Running /\ DispatchTick
    \/ Running /\ DispatchPut
    \/ \E f \in Fetchers : Running /\ FetchGet(f)
    \/ \E f \in Fetchers : Running /\ RobotsLookup(f)
    \/ \E f \in Fetchers : Running /\ RobotsFetched(f)
    \/ \E f \in Fetchers : Running /\ LockAndStart(f)
    \/ \E f \in Fetchers : Running /\ DownloadOk(f)
    \/ \E f \in Fetchers : Running /\ FetchFinish(f)
    \/ Running /\ ParseTake
    \/ Running /\ ParsePut
    \/ Running /\ WriterTake
    \/ Running /\ WriterCommit
    \/ Running /\ BloomSave
    \/ Sigint
    \/ DiscardFetch
    \/ DrainLoop
    \/ Checkpoint

SpecShutdown == Init /\ [][NextShutdown]_vars

\* the crawler with database errors in the writer
NextFaults ==
    \/ Pipeline
    \/ WriterFault
    \/ \E d \in Domains : Tick(d)

SpecFaults == Init /\ [][NextFaults]_vars

\* the crawler started on a frontier seeded with a1 alone: a2 is known only
\* as a link of a1
InitDiscover ==
    /\ frontier = [u \in {"a1"} |-> NewFrontierRow]
    /\ visited = <<>>
    /\ link_graph = {}
    /\ html_storage = <<>>
    /\ next_rowid = 1
    /\ web \in Webs
    /\ CrawlerFresh
    /\ IndexerIdle
    /\ AppIdle

\* link discovery with database errors in the writer
SpecDiscover == InitDiscover /\ [][NextFaults]_vars

\* the crawler over kills and restarts whose recover() may raise
NextRecover ==
    \/ Pipeline
    \/ CrashRestart
    \/ CrashRestartLocked
    \/ \E d \in Domains : Tick(d)

SpecRecover == Init /\ [][NextRecover]_vars

(* ------------------------------- claims -------------------------------- *)
\* the fetch workers that hold url: between FETCH_QUEUE.get and the outcome
Holding(u) == {f \in Fetchers : fetcher[f].pc # "idle" /\ fetcher[f].url = u}

QueuedForFetch(u) == \E i \in 1..Len(FETCH_QUEUE) : FETCH_QUEUE[i][1] = u

\* url is somewhere between the dispatcher's SELECT and the writer's commit
InFlight(u) ==
    \/ QueuedForFetch(u)
    \/ \E i \in 1..Len(disp_pending) : disp_pending[i][1] = u
    \/ Holding(u) # {}
    \/ \E i \in 1..Len(PARSE_QUEUE) : PARSE_QUEUE[i][1] = u
    \/ \E i \in 1..Len(WRITE_QUEUE) : WRITE_QUEUE[i].url = u \/ u \in WRITE_QUEUE[i].urls

Denied(u) == web.robots[Netloc(u)] = "deny"

\* C1: once a frontier row's committed status has been 2 or 3, the row never
\* has status 0 afterwards.
C1_TerminalNeverPending == \A u \in ever_terminal : frontier[u].status # 0

\* C2: no url is held by two fetch workers at once, and no url is on the Fetch
\* Queue while a fetch worker holds it.
C2_SingleInFlight ==
    \A u \in Urls :
        /\ Cardinality(Holding(u)) <= 1
        /\ Holding(u) # {} => ~QueuedForFetch(u)

\* C3: a download of a domain starts (mark_access, download_page) only when
\* the previous download start on that domain is at least CRAWL_DELAY old.
C3_DelayBetweenStarts ==
    [][\A f \in Fetchers :
         fetcher[f].pc = "lock" /\ fetcher'[f].pc = "download"
            => ~start_recent[Netloc(fetcher[f].url)]]_vars

\* C4: page_counts of every domain stays at most MAX_PAGES_PER_DOMAIN.
C4_PageCap == \A d \in Domains : page_counts[d] <= web.max_pages

\* C5: once a fetcher has emitted reschedule for a url of the two-url
\* frontier, both urls eventually have status 2.
C5_PoliteReschedule ==
    (\E i \in 1..Len(WRITE_QUEUE) : WRITE_QUEUE[i].type = "reschedule")
        ~> (\A u \in DOMAIN frontier : frontier[u].status = 2)

\* C6: a url robots.txt disallows is never downloaded, gets no save_page and
\* no visited row, and once its dispatch has been handled completely its
\* frontier row has status 3.
C6_RobotsDenialTerminal ==
    \A u \in DOMAIN frontier :
        Denied(u) =>
            /\ \A f \in Holding(u) : fetcher[f].pc \notin {"download", "post"}
            /\ \A i \in 1..Len(PARSE_QUEUE) : PARSE_QUEUE[i][1] # u
            /\ \A i \in 1..Len(WRITE_QUEUE) :
                 WRITE_QUEUE[i].type = "save_page" => WRITE_QUEUE[i].url # u
            /\ u \notin DOMAIN visited
            /\ (frontier[u].status # 0 /\ ~InFlight(u)) => frontier[u].status = 3

\* the Storage rows that hold a page
RowsOf(content) == {i \in 1..Len(html_storage) : html_storage[i].parsed_text = content}

C8_CursorMonotonic ==
    \A i, j \in 1..Len(started_ids) : i < j => started_ids[i] <= started_ids[j]

\* C9: every html_storage row with non-null parsed_text and rowid at most the
\* persisted cursor has been committed to search_index.
C9_CursorBehindSearch ==
    \A i \in 1..Len(html_storage) :
        (/\ html_storage[i].parsed_text # None
         /\ html_storage[i].rowid <= get_last_indexed_id(state_file))
            => html_storage[i].rowid \in search_log

\* C9's case: the persisted cursor covers both rows of Storage, and the
\* indexer has been killed on the way
C9_CursorAdvanced ==
    /\ Len(html_storage) = 2
    /\ get_last_indexed_id(state_file) = 2
    /\ crashes > 0

\* C10: no url is in search_index twice.
C10_SearchUrlOnce ==
    \A i, j \in 1..Len(search_index) : i # j => search_index[i] # search_index[j]

\* C11: a restart (recover() has run, no thread has started) leaves no
\* frontier row with status 1: the rows that had status 1 have status 0, the
\* rows with status 0, 2 or 3 keep it, and every row keeps its retry_count
\* and priority.
C11_RecoverFrame ==
    [][(\E recovered \in BOOLEAN : Restart(recovered)) =>
          /\ DOMAIN frontier' = DOMAIN frontier
          /\ \A u \in DOMAIN frontier :
               /\ frontier'[u].status # 1
               /\ frontier'[u].status = IF frontier[u].status = 1 THEN 0
                                        ELSE frontier[u].status
               /\ frontier'[u].retry_count = frontier[u].retry_count
               /\ frontier'[u].priority = frontier[u].priority]_vars

\* C20: after every pass of the writer neither database connection is inside
\* a transaction, so the next BEGIN IMMEDIATE on it succeeds (the Crawl
\* connection is rolled back inside the pass; the model has no state in
\* which it is not).
C20_WriterRecovers == conn_storage = "idle"

\* the reserve messages on WRITE_QUEUE
Reserves(q) == {i \in 1..Len(q) : q[i].type = "reserve"}

\* C12: when the shutdown after one Ctrl+C has checkpointed and the process
\* has exited, no message put on PARSE_QUEUE or WRITE_QUEUE is left
\* unprocessed: the queues are empty, no parse worker holds an item and the
\* writer holds no batch it has not committed.
C12_ShutdownLosesNothing ==
    main = "exited" =>
        /\ PARSE_QUEUE = <<>> /\ WRITE_QUEUE = <<>>
        /\ parsing = <<>>
        /\ batch_hold = <<>>

\* C13: after the Ctrl+C the dispatcher puts no reserve message on
\* WRITE_QUEUE and no url on FETCH_QUEUE.
C13_DispatcherStops ==
    [][main # "monitor" =>
          /\ Len(FETCH_QUEUE') <= Len(FETCH_QUEUE)
          /\ Cardinality(Reserves(WRITE_QUEUE')) <= Cardinality(Reserves(WRITE_QUEUE))]_vars

\* C14: when the process has exited after one Ctrl+C, the Bloom snapshot on
\* disk holds every link the writer added to the Bloom filter.
C14_BloomPersisted == main = "exited" => BLOOM \subseteq bloom_file

\* fetcher f ends a download that returned an error
FinishesError(f) ==
    /\ fetcher[f].pc = "post" /\ fetcher[f].result.error # None
    /\ fetcher'[f].pc = "idle"

\* C18: a fetcher whose download returned an error records one failure of
\* the domain and puts exactly one message on WRITE_QUEUE, retry with
\* retry_count + 1 if retry_count < 3 and status_update 3 otherwise, and
\* nothing on PARSE_QUEUE.
C18_DownloadErrorOutcome ==
    [][\A f \in Fetchers :
         FinishesError(f) =>
            LET url == fetcher[f].url
                rc == fetcher[f].retry_count
            IN  /\ failures'[Netloc(url)] = failures[Netloc(url)] + 1
                /\ \A d \in Domains \ {Netloc(url)} : failures'[d] = failures[d]
                /\ Len(WRITE_QUEUE') = Len(WRITE_QUEUE) + 1
                /\ SubSeq(WRITE_QUEUE', 1, Len(WRITE_QUEUE)) = WRITE_QUEUE
                /\ LET msg == WRITE_QUEUE'[Len(WRITE_QUEUE')]
                   IN  /\ msg.url = url
                       /\ rc < 3 => msg.type = "retry" /\ msg.val = rc + 1
                       /\ rc >= 3 => msg.type = "status_update" /\ msg.val = 3
                /\ PARSE_QUEUE' = PARSE_QUEUE]_vars

\* C18's case: the download of b1 failed at retry_count 3, the failure is
\* counted and the status_update 3 of b1 is on WRITE_QUEUE
C18_AbandonEmitted ==
    /\ failures["b"] = 1
    /\ \E i \in 1..Len(WRITE_QUEUE) :
         /\ WRITE_QUEUE[i].type = "status_update"
         /\ WRITE_QUEUE[i].url = "b1" /\ WRITE_QUEUE[i].val = 3

\* the errors of download_page the claim calls permanent
PermanentErrors == {"NOT_HTML"}

\* C19: a download that fails with a permanent-class error is answered with
\* status_update 3 at its first occurrence, with no retry.
C19_PermanentNoRetry ==
    [][\A f \in Fetchers :
         (FinishesError(f) /\ fetcher[f].result.error \in PermanentErrors) =>
            LET msg == WRITE_QUEUE'[Len(WRITE_QUEUE')]
            IN  msg.type = "status_update" /\ msg.val = 3]_vars

\* the requests of ip let pass at a time in [t, t + RateLimitWindow)
AcceptedIn(ip, t) ==
    {i \in 1..Len(accepted[ip]) : t <= accepted[ip][i] /\ accepted[ip][i] < t + RateLimitWindow}

\* C15: of the requests of one ip made within any window of RATE_LIMIT_WINDOW
\* seconds, check_rate_limit lets at most RATE_LIMIT_MAX pass.
C15_RollingWindow ==
    \A ip \in Ips, t \in 0..MaxClock : Cardinality(AcceptedIn(ip, t)) <= RateLimitMax

\* C16: a /search request in which an exception was raised after the rate
\* limit check is answered with the rendered results page, an empty result
\* list and count 0.
C16_ErrorsRenderEmpty ==
    resp.raised # "none" =>
        /\ resp.status = 200 /\ resp.view = "results"
        /\ resp.results = <<>> /\ resp.count = 0

\* how many of the first i - 1 entries of a score list have the netloc of the i-th
Earlier(list, i) ==
    Cardinality({j \in 1..(i - 1) : UrlNetloc(list[j].url) = UrlNetloc(list[i].url)})

\* C17: pre_scored is in descending order of pre-score, and the k-th result
\* of a netloc in that order gets the final score pre-score - 15 * (k - 1),
\* with the fallback multiplier and without it.
C17_DiversityPenalty ==
    /\ Len(resp.final_scored) = Len(resp.pre_scored)
    /\ \A i, j \in 1..Len(resp.pre_scored) :
         i < j => resp.pre_scored[i].score >= resp.pre_scored[j].score
    /\ \A i \in 1..Len(resp.pre_scored) :
         /\ resp.final_scored[i].url = resp.pre_scored[i].url
         /\ resp.final_scored[i].score = resp.pre_scored[i].score - 15 * Earlier(resp.pre_scored, i)

\* C17's case: a query whose loose form was tried returned two pages of one
\* netloc, and the second got its pre-score less 15
C17_SecondOfNetloc ==
    /\ resp.fallback /\ resp.status = 200
    /\ Len(resp.pre_scored) = 2
    /\ UrlNetloc(resp.pre_scored[1].url) = UrlNetloc(resp.pre_scored[2].url)
    /\ resp.final_scored[2].score = resp.pre_scored[2].score - 15

\* C21: every url a pass of the dispatcher takes for FETCH_QUEUE has, in the
\* frontier the pass selected from, status 0 or status 1 with an expired
\* lease (so never status 2 or 3) and is not in the ring; and FETCH_QUEUE
\* only ever grows by the next url of such a pass.
C21_ReservationLease ==
    [][/\ (disp_pending = <<>> /\ disp_pending' # <<>>) =>
             \A i \in 1..Len(disp_pending') :
                LET u == disp_pending'[i][1]
                IN  /\ u \in DOMAIN frontier
                    /\ \/ frontier[u].status = 0
                       \/ frontier[u].status = 1 /\ u \in lease_expired
                    /\ frontier[u].status \notin {2, 3}
                    /\ u \notin Range(dispatched_cache)
       /\ Len(FETCH_QUEUE') > Len(FETCH_QUEUE) =>
             /\ disp_pending # <<>>
             /\ FETCH_QUEUE' = Append(FETCH_QUEUE, Head(disp_pending))]_vars

\* C21's case: the dispatcher has taken a row whose lease ran out (status 1)
\* and is about to put it on FETCH_QUEUE
C21_ExpiredLeaseTaken ==
    \E i \in 1..Len(disp_pending) :
        /\ frontier[disp_pending[i][1]].status = 1
        /\ disp_pending[i][1] \in lease_expired

\* C22: a domain's robots.txt is requested by at most one fetcher at a time,
\* and by none while the cache holds an entry of the domain within its TTL.
C22_SingleRobotsFetch ==
    \A d \in Domains :
        LET fetching == {f \in Fetchers : fetcher[f].pc = "robots_fetch"
                                           /\ Netloc(fetcher[f].url) = d}
        IN  /\ Cardinality(fetching) <= 1
            /\ ROBOTS_CACHE[d] # None => fetching = {}

\* the reserve of a dispatch of u is among the first n messages of
\* WRITE_QUEUE, or the writer has committed one already
ReserveBefore(u, n) ==
    \/ u \in DOMAIN frontier /\ frontier[u].reserved_at = "set"
    \/ \E j \in 1..n : WRITE_QUEUE[j].type = "reserve" /\ u \in WRITE_QUEUE[j].urls

C24_CountersUnderLock ==
    [][\A d \in Domains :
          (\/ failures'[d] # failures[d]
           \/ page_counts'[d] # page_counts[d]
           \/ last_access'[d] = "recent" /\ last_access[d] # "recent")
          => \E f \in Fetchers :
                /\ fetcher'[f] # fetcher[f]
                /\ locks[d] = f \/ locks'[d] = f]_vars

\* the status a message asks for when it is a terminal outcome, 0 otherwise:
\* save_page appends (2, url) to batch_status, status_update carries its value
TerminalValue(m) ==
    IF m.type = "save_page" THEN 2
    ELSE IF m.type = "status_update" /\ m.val \in {2, 3} THEN m.val
    ELSE 0

\* C25: when the messages one writer pass takes from WRITE_QUEUE hold the
\* reserve message of a dispatch and, after it, the terminal outcome of the
\* same url (and nothing later for that url), the row's status after the pass
\* is that terminal value, not 1
C25_TerminalWinsInBatch ==
    [][Len(WRITE_QUEUE') < Len(WRITE_QUEUE) =>
          LET k == Len(WRITE_QUEUE) - Len(WRITE_QUEUE')
          IN  \A i, j \in 1..k :
                 (/\ i < j
                  /\ WRITE_QUEUE[i].type = "reserve"
                  /\ TerminalValue(WRITE_QUEUE[j]) # 0
                  /\ WRITE_QUEUE[j].url \in WRITE_QUEUE[i].urls
                  /\ WRITE_QUEUE[j].url \in DOMAIN frontier
                  /\ \A l \in (j + 1)..k :
                        WRITE_QUEUE[l].type = "reserve" \/ WRITE_QUEUE[l].url # WRITE_QUEUE[j].url)
                 => frontier'[WRITE_QUEUE[j].url].status = TerminalValue(WRITE_QUEUE[j])]_vars

\* html_storage holds a row of this rowid with a parsed_text
Stored(n) ==
    \E k \in 1..Len(html_storage) :
        html_storage[k].rowid = n /\ html_storage[k].parsed_text # None

\* C26: every html_storage row with a parsed_text is eventually inserted
\* into search_index, also when fewer than MIN_BATCH_SIZE rows are pending
\* (indexer running fairly, time passing, no database error, no kill)
C26_IndexerProgress ==
    \A n \in 1..Cardinality(Urls) : Stored(n) ~> (n \in search_log)

\* C26's case: the indexer has waited MAX_WAIT_TIME and commits a batch
\* although fewer than MIN_BATCH_SIZE rows are pending
C26_SmallBatchAfterWait ==
    /\ idx.pc = "commit"
    /\ idx.waited
    /\ CurrentMaxId(html_storage) - idx.last_id < MinBatchSize

\* C27: the PageRank job terminates; it makes at most MAX_RETRIES attempts,
\* goes to a next attempt only after a database-locked error, returns at once
\* on any other error and on an empty link graph, and writes page_rank only
\* in an attempt that read the edges
C27_RankJobTerminates ==
    /\ [](rank.attempt <= PageRankMaxRetries)
    /\ [][/\ rank'.attempt = rank.attempt + 1 /\ rank.pc # "done" /\ rank.pc # "idle"
              => rank'.last = "locked" /\ rank'.pc = "read"
          /\ rank' # rank /\ rank'.last \in {"sqlite_error", "error", "no_links"}
              => rank'.pc = "done" /\ rank'.attempt = rank.attempt
          /\ (\E u \in DOMAIN visited \cap DOMAIN visited' :
                 visited'[u].page_rank # visited[u].page_rank /\ visited'[u].page_rank # 0)
              => rank.pc = "write" /\ rank.edges # {} /\ rank.edges \subseteq link_graph]_vars
    /\ (rank.pc \in {"read", "write"}) ~> (rank.pc = "done")

\* C27's case: two attempts met a locked database and the third wrote the ranks
C27_ThirdAttemptWrites ==
    /\ rank.pc = "done" /\ rank.last = "updated"
    /\ rank.attempt = PageRankMaxRetries
    /\ \E u \in DOMAIN visited : visited[u].page_rank > 0

\* the rows a score list was computed from: those of the loose query when
\* it ran, else those of the strict query
ScoredFrom(req, fallback) == IF fallback THEN req.rows \o req.extra ELSE req.rows

C29_NavigationalBoost ==
    [][(/\ request # <<>> /\ request' = <<>>
        /\ request[1].terms <= NavTermsMax
        /\ resp'.status = 200 /\ resp'.raised = "none")
       => LET from == ScoredFrom(request[1], resp'.fallback)
          IN  \A i \in 1..Len(resp'.pre_scored) :
                 SlugIn(QuerySlug, UrlNetloc(resp'.pre_scored[i].url)) =>
                    \E k \in 1..Len(from) :
                       /\ from[k].url = resp'.pre_scored[i].url
                       /\ resp'.pre_scored[i].score =
                             IF resp'.fallback THEN ((from[k].score + NavBoost) * 4) \div 5
                             ELSE from[k].score + NavBoost]_vars

\* C30: no two entries of the scored list have urls that are equal after
\* lower-casing and stripping the scheme, www. and the trailing slash
C30_DedupeNormalised ==
    \A i, j \in 1..Len(resp.pre_scored) :
        i # j => Lower(Norm(resp.pre_scored[i].url)) # Lower(Norm(resp.pre_scored[j].url))

\* the first line of a text that is not empty after strip(), <<>> if none
RECURSIVE FirstNonEmpty(_)
FirstNonEmpty(lines) ==
    IF lines = <<>> THEN <<>>
    ELSE IF Strip(Head(lines)) # <<>> THEN Strip(Head(lines))
    ELSE FirstNonEmpty(Tail(lines))

\* C31: the title inserted for a Storage row is the stored title if it is
\* not empty, otherwise the first non-empty line of the parsed text,
\* otherwise the url (as it is, or cut to TitleMax characters)
C31_TitleSelection ==
    titling.out # <<>> =>
        LET row == titling.row[1]
            line == FirstNonEmpty(Split(row.parsed_text))
            chosen == IF row.title # <<>> THEN row.title
                      ELSE IF line # <<>> THEN line ELSE row.url
        IN  titling.out[1] \in {chosen, Prefix(chosen, TitleMax)}

\* the steps of one fetch worker
FetcherStep(f) ==
    \/ FetchGet(f) \/ RobotsLookup(f) \/ RobotsFetched(f)
    \/ LockAndStart(f) \/ DownloadOk(f) \/ FetchFinish(f)

WriteFull == Len(WRITE_QUEUE) = QueueMax
ParseFull == Len(PARSE_QUEUE) = QueueMax

\* C32: no thread waits on a cycle.  The writer can always take from a full
\* WRITE_QUEUE; a parser with a page can go on unless WRITE_QUEUE is full; a
\* busy fetcher can go on unless the queue it puts on is full or the domain
\* lock it wants is held by a fetcher that can go on; a full FETCH_QUEUE is
\* taken from by a fetcher unless the fetchers wait as said; and the
\* dispatcher in its puts waits for FETCH_QUEUE only.
C32_DeadlockFree ==
    /\ WriteFull => ENABLED WriterBatch
    /\ PARSE_QUEUE # <<>> => WriteFull \/ ENABLED Parse
    /\ \A f \in Fetchers :
         fetcher[f].pc # "idle" =>
            \/ ENABLED FetcherStep(f)
            \/ WriteFull \/ ParseFull
            \/ /\ fetcher[f].pc = "lock"
               /\ \E g \in Fetchers \ {f} :
                     locks[Netloc(fetcher[f].url)] = g /\ ENABLED FetcherStep(g)
    /\ Len(FETCH_QUEUE) = QueueMax =>
         \/ \E f \in Fetchers : ENABLED FetcherStep(f)
         \/ WriteFull \/ ParseFull
    /\ disp_pending # <<>> => Len(FETCH_QUEUE) = QueueMax \/ ENABLED DispatchPut

\* C32's case: WRITE_QUEUE is full while a parser has a page to put on it
\* and a fetcher has an outcome to put on it
C32_ProducersBlocked ==
    /\ WriteFull
    /\ PARSE_QUEUE # <<>>
    /\ \E f \in Fetchers : fetcher[f].pc = "post" /\ fetcher[f].result.error # None

\* url is in the hands of the dispatcher: taken by a pass, or on FETCH_QUEUE
Dispatched(u) ==
    \/ \E i \in 1..Len(disp_pending) : disp_pending[i][1] = u
    \/ \E i \in 1..Len(FETCH_QUEUE) : FETCH_QUEUE[i][1] = u

\* C33: a frontier row at status 0 (never tried, or set back to 0 by a retry
\* or a reschedule) does not stay so for ever without being dispatched, when
\* every thread keeps running and time keeps passing
C33_NoStarvation ==
    \A u \in Urls :
        (u \in DOMAIN frontier /\ frontier[u].status = 0)
            ~> (Dispatched(u) \/ ~(u \in DOMAIN frontier /\ frontier[u].status = 0))

\* C34: a pass of the writer leaves the language, page_rank and domain_rank
\* of every visited row that exists before it as they are, also when the
\* pass writes a save_page of that url
C34_SavePageKeepsRanks ==
    [][Len(WRITE_QUEUE') < Len(WRITE_QUEUE) =>
          \A u \in DOMAIN visited :
             /\ u \in DOMAIN visited'
             /\ visited'[u].language = visited[u].language
             /\ visited'[u].page_rank = visited[u].page_rank
             /\ visited'[u].domain_rank = visited[u].domain_rank]_vars

\* C35: between the writer's passes every link in the Bloom filter has a
\* frontier row, also after a pass whose Crawl transaction was rolled back
C35_BloomInFrontier == BLOOM \subseteq DOMAIN frontier

\* the i-th message of WRITE_QUEUE is a save_page whose hash the writer has
\* not seen: not in seen_hashes and not earlier in the queue
NewPage(i) ==
    /\ WRITE_QUEUE[i].type = "save_page"
    /\ ("h:" \o WRITE_QUEUE[i].hash) \notin seen_hashes
    /\ \A j \in 1..(i - 1) :
          WRITE_QUEUE[j].type = "save_page" => WRITE_QUEUE[j].hash # WRITE_QUEUE[i].hash

\* C36: after every pass of the writer, also one in which a transaction
\* failed, every html_storage row's url has a visited row, and every url
\* whose status the pass set to 2 for a save_page with a new content hash
\* has an html_storage row
C36_CrossStore ==
    [][Len(WRITE_QUEUE') < Len(WRITE_QUEUE) =>
          /\ \A k \in 1..Len(html_storage') : html_storage'[k].url \in DOMAIN visited'
          /\ \A i \in 1..(Len(WRITE_QUEUE) - Len(WRITE_QUEUE')) :
                LET u == WRITE_QUEUE[i].url
                IN  (/\ NewPage(i)
                     /\ u \in DOMAIN frontier
                     /\ frontier[u].status # 2 /\ frontier'[u].status = 2)
                    => \E k \in 1..Len(html_storage') : html_storage'[k].url = u]_vars

\* C37: the retry_count stored for a frontier row never exceeds 5
C37_RetriesBounded ==
    \A u \in DOMAIN frontier : frontier[u].retry_count <= PenaltyRetryLimit

\* the messages db_writer takes off WRITE_QUEUE in a step
Taken == SubSeq(WRITE_QUEUE, 1, Len(WRITE_QUEUE) - Len(WRITE_QUEUE'))

\* the links of the taken save_page messages that miss the Bloom filter: the
\* rows of batch_frontier
TakenLinks ==
    UNION {Taken[i].urls : i \in {j \in 1..Len(Taken) : Taken[j].type = "save_page"}}
        \ BLOOM

\* the urls a taken message addresses by itself (its own page, status, retry,
\* reserve or reschedule)
TakenSubjects ==
    UNION {IF Taken[i].type = "reserve" THEN Taken[i].urls ELSE {Taken[i].url} :
             i \in 1..Len(Taken)}

\* C38: a frontier_insert of a link that already has a frontier row leaves the
\* row's status, priority, retry_count and reserved_at as they were (the row
\* changes only through a message of the batch about that url itself), so a
\* completed or failed url that is rediscovered is not enqueued again
C38_InsertIgnoresKnown ==
    [][WriterBatch =>
         \A u \in (TakenLinks \cap DOMAIN frontier) \ TakenSubjects :
            frontier'[u] = frontier[u]]_vars

\* a2 was saved before a1 (a1, the same content, was taken for a duplicate),
\* and a1's link to a2 missed the Bloom filter and was inserted: a2 is still done
C38_RediscoveredStaysDone ==
    /\ Len(html_storage) = 1 /\ html_storage[1].url = "a2"
    /\ "a1" \in DOMAIN visited
    /\ "a2" \in BLOOM
    /\ frontier["a2"].status = 2

\* RATE_LIMIT holds at most one entry above the size at which it is cleared
TableBounded == Cardinality(DOMAIN RATE_LIMIT) <= RateTableMax + 1

\* C39: once check_rate_limit has rejected an ip, no request of that ip is let
\* pass until RATE_LIMIT_WINDOW has passed since the start of its window,
\* whatever other ips request in between; and RATE_LIMIT never holds more than
\* one entry above the size at which it is cleared
C39_LimitedStaysLimited ==
    /\ [][\A ip \in DOMAIN rejected :
            (rejected[ip] # <<>> /\ now - rejected[ip][1] <= RateLimitWindow)
                => accepted'[ip] = accepted[ip]]_vars
    /\ []TableBounded

====
